---- MODULE Spec2Model ----
(***************************************************************************)
(* openwapi: the WhatsApp connection lifecycle (connectToWhatsApp and its  *)
(* connection.update / creds.update / messages.upsert handlers), the       *)
(* POST /logout route, message ingestion and webhook dispatch.             *)
(*                                                                         *)
(* Node runs every handler to its next await before another handler runs,  *)
(* so each action below is one such synchronous section.  An optional      *)
(* JavaScript value is a set: {} is null and {v} is the value v.           *)
(***************************************************************************)
EXTENDS Integers, Sequences, FiniteSets, TLC

\* ------------------------------------------------------------------ bounds
\* Sessions connectToWhatsApp may create in one run of the model.
MaxSessions == 3
\* POST /logout requests that get past the socket check in one run.
MaxLogouts == 1
\* QR renderings (QRCode.toDataURL) pending at the same time.
MaxRenders == 1
\* Inbound events delivered to the messages.upsert handler in one run.
MaxEvents == 2
\* Events in one messages.upsert batch.
MaxBatch == 2
\* sock.sendMessage calls made by POST /messages/:id/reply in one run.
MaxSends == 1
\* Seconds the clock advances in one run.
MaxClock == 1
\* Characters in a supplied X-API-Key header.
MaxKeyLen == 2
\* Characters in the decoded credentials of a supplied Basic header, apart
\* from the credentials that match a configuration.
MaxCredLen == 3

\* --------------------------------------------------------- program constants
\* const istOffset = 5.5 * 60 * 60 * 1000, in seconds.
IstOffset == 19800
\* setTimeout(connectToWhatsApp, 5000) after a close that is not a logout.
ReconnectDelay == 5000
\* setTimeout(..., 2000) after a close whose reason is loggedOut.
LoggedOutDelay == 2000
\* setTimeout(() => whatsappState.reconnectFn(), 3000) in POST /logout.
ApiLogoutDelay == 3000
\* lastDisconnect.error.output.statusCode: DisconnectReason.loggedOut, the
\* explicit remote logout, and one of the other reasons.
LoggedOut == "loggedOut"
ConnectionClosed == "connectionClosed"

Delays == {LoggedOutDelay, ApiLogoutDelay, ReconnectDelay}
CloseCodes == {LoggedOut, ConnectionClosed}

Null == {}
Some(v) == {v}

Sessions == 1..MaxSessions
Events == 1..MaxEvents
\* Credentials in the session folder: 0 is a pairing of an earlier run of the
\* process, s > 0 the pairing made through session s.
Creds == 0..MaxSessions

\* sock.user.id as the tokens of "<phone>:<device>@s.whatsapp.net".
UserIds == { <<"4917", ":", "3", "@s.whatsapp.net">> }

\* Strings that are compared character by character are sequences of
\* characters.  ensureApiKey stores the base64 text of 32 random bytes.
GeneratedKey == <<"k", "1">>
\* config.js: DASHBOARD_USER || 'admin', DASHBOARD_PASSWORD || 'admin123'.
DefaultConfig == [DASHBOARD_USER |-> <<"a">>, DASHBOARD_PASSWORD |-> <<"p">>]

VARIABLES
  \* WhatsAppState
  sock,        \* Null or {s}: the stored Baileys socket
  qrCode,      \* Null or {dataUrl}
  connected,   \* BOOLEAN
  phone,       \* Null or {phone}
  reconnectFn, \* Null or {"connectToWhatsApp"}
  \* the Baileys sockets created so far
  sessSt,      \* [Sessions -> {"none", "live", "open", "closed"}]
  sessCreds,   \* [Sessions -> Null or {c}]: the auth state the socket was made with
  \* durable session folder
  material,    \* Null or {c}
  \* connectToWhatsApp invocations
  loading,     \* number of invocations awaiting useMultiFileAuthState
  loaded,      \* [Null or {c} -> Nat]: invocations whose read is done, not yet resumed
  timers,      \* [Delays -> Nat]: pending setTimeout reconnections
  renders,     \* pending QRCode.toDataURL calls, with the update they belong to
  \* POST /logout
  logouts,     \* [LogoutKeys -> Nat]: requests awaiting sock.logout()
  terminated,  \* [Sessions -> Nat]: logout() calls made on the socket
  resp,        \* the HTTP response sent in the step just taken, if any
  issuedConnected, \* whether the request it answers arrived while connected
  \* database
  messages,    \* the messages table, in id order
  webhooks,    \* the webhooks table, in insertion order
  \* MediaStore and the network
  files,       \* names of the files written under the media path
  posts,       \* the webhook POSTs issued so far, in order
  \* messages.upsert handler
  ingest,      \* handler invocations suspended at an await
  delivered,   \* number of events handed to the handler so far
  rowEvent,    \* for the properties: the event each row of messages came from
  dl,          \* for the properties: the download of each event's image
  \* HTTP API
  apiKey,      \* the api_keys table: Null or {key}
  config,      \* [DASHBOARD_USER, DASHBOARD_PASSWORD]
  now,         \* the system clock, in seconds
  sent,        \* the sock.sendMessage calls made so far, in order
  replies,     \* POST /messages/:id/reply handlers awaiting sock.sendMessage
  req,         \* the HTTP request answered in the step just taken, if any
  out          \* the data of the response sent in the step just taken

connState == <<sock, qrCode, connected, phone, reconnectFn, sessSt, sessCreds,
               material, loading, loaded, timers, renders, logouts, terminated>>

connVars == <<connState, resp, issuedConnected>>

ingestVars == <<messages, webhooks, files, posts, ingest, delivered, rowEvent, dl>>

apiState == <<apiKey, config, now, sent, replies>>

vars == <<connVars, ingestVars, apiState, req, out>>

NoResp == [route |-> "none", code |-> 0, error |-> ""]
NoHeaders == [key |-> Null, authorization |-> Null]
NoBody == [message |-> Null, image |-> Null, status |-> Null]
\* A request: its route, headers, :id parameter and JSON body, and whether
\* its handler ran (the middleware called next()).
NoReq == [route |-> "none", headers |-> NoHeaders, id |-> 0, body |-> NoBody,
          ran |-> FALSE]

\* The step answers a request the model keeps no record of, with no data.
NoData == req' = NoReq /\ out' = Null

\* The step sends no HTTP response.
NoResponse == resp' = NoResp /\ issuedConnected' = FALSE /\ NoData

\* -------------------------------------------------------------- WhatsAppState

\* Mutant of SetConnected: a null phone argument leaves the stored phone.
SetConnectedKeepsPhone(c, p) ==
  [connected |-> c, phone |-> IF p = Null THEN phone ELSE p]

\* setConnected(connected, phone = null): the two fields it assigns.
SetConnected(c, p) == [connected |-> c, phone |-> p]

\* sock.user?.id.split(':')[0]
RECURSIVE SplitColonHead(_)
SplitColonHead(id) ==
  IF id = <<>> \/ Head(id) = ":" THEN <<>>
  ELSE <<Head(id)>> \o SplitColonHead(Tail(id))

\* Mutant of ExtractPhone: the id is not split at the colon.
ExtractPhoneKeepsDevice(user) ==
  IF user = Null THEN Null ELSE Some(CHOOSE id \in user : TRUE)

\* const phone = sock.user?.id.split(':')[0]; user is Null or {id}.
ExtractPhone(user) ==
  IF user = Null THEN Null
  ELSE Some(SplitColonHead(CHOOSE id \in user : TRUE))

\* QRCode.toDataURL(qr): the data URL of the rendered image.
ToDataURL(qr) == <<"data:image/png;base64", qr>>

\* /qr and /status observe this status: connected, else pairing material
\* present, else neither.
Status ==
  IF connected THEN "Connected"
  ELSE IF qrCode # Null THEN "AwaitingPairing"
  ELSE "Disconnected"

\* ------------------------------------------------------------------ helpers

Created == {s \in Sessions : sessSt[s] # "none"}
Live == {s \in Sessions : sessSt[s] \in {"live", "open"}}

\* The sum of the counts f[x] for x in S.
Sum(f, S) == Cardinality(UNION {{x} \X (1..f[x]) : x \in S})

\* A pending POST /logout: the socket whose logout() it awaits and, for the
\* properties, whether the state was connected when the request arrived.
LogoutKeys == Sessions \X BOOLEAN

CredsOpts == {Null} \cup {Some(c) : c \in Creds}

PendingTimers == Sum(timers, Delays)
PendingConnects == loading + Sum(loaded, CredsOpts)

\* Connections still to come (scheduled or in progress) plus sockets made.
Committed == Cardinality(Created) + PendingConnects + PendingTimers

\* createRoutes runs once initializeWhatsApp has resolved, that is after the
\* first connectToWhatsApp has returned.
ApiUp == Created # {}

\* Mutant of Schedule: the timer is set twice.
ScheduleTwice(t, d) == [t EXCEPT ![d] = @ + 2]

\* Mutant of Schedule: no timer is set.
ScheduleDropped(t, d) == t

\* setTimeout(fn, d)
Schedule(t, d) == [t EXCEPT ![d] = @ + 1]

\* ---------------------------------------------------------------------- Init

InitCore ==
  /\ sock = Null
  /\ qrCode = Null
  /\ connected = FALSE
  /\ phone = Null
  /\ reconnectFn = Some("connectToWhatsApp")
  /\ sessSt = [s \in Sessions |-> "none"]
  /\ sessCreds = [s \in Sessions |-> Null]
  /\ material \in {Null, Some(0)}
  /\ loading = 1
  /\ loaded = [c \in CredsOpts |-> 0]
  /\ timers = [d \in Delays |-> 0]
  /\ renders = {}
  /\ logouts = [k \in LogoutKeys |-> 0]
  /\ terminated = [s \in Sessions |-> 0]
  /\ resp = NoResp
  /\ issuedConnected = FALSE
  /\ messages = <<>>
  /\ webhooks = <<>>
  /\ files = {}
  /\ posts = <<>>
  /\ ingest = {}
  /\ delivered = 0
  /\ rowEvent = <<>>
  /\ dl = [e \in Events |-> "none"]
  /\ now = 0
  /\ sent = <<>>
  /\ replies = {}
  /\ req = NoReq
  /\ out = Null

\* The process as index.js starts it: ensureApiKey has stored a key and the
\* dashboard credentials are those of the configuration.
Init ==
  /\ InitCore
  /\ apiKey = Some(GeneratedKey)
  /\ config = DefaultConfig

\* ------------------------------------------------------- connectToWhatsApp

\* A reconnection timer fires: connectToWhatsApp starts and suspends at
\* await useMultiFileAuthState(sessionPath).
TimerFires(d) ==
  /\ timers[d] > 0
  /\ timers' = [timers EXCEPT ![d] = @ - 1]
  /\ loading' = loading + 1
  /\ UNCHANGED <<sock, qrCode, connected, phone, reconnectFn, sessSt, sessCreds,
                 material, loaded, renders, logouts, terminated>>
  /\ NoResponse
  /\ UNCHANGED <<ingestVars, apiState>>

\* useMultiFileAuthState reads the session folder.
AuthStateRead ==
  /\ loading > 0
  /\ loading' = loading - 1
  /\ loaded' = [loaded EXCEPT ![material] = @ + 1]
  /\ UNCHANGED <<sock, qrCode, connected, phone, reconnectFn, sessSt, sessCreds,
                 material, timers, renders, logouts, terminated>>
  /\ NoResponse
  /\ UNCHANGED <<ingestVars, apiState>>

\* connectToWhatsApp resumes: makeWASocket({auth: authState.state}),
\* whatsappState.setSock(sock), the handlers are registered.
ConnectEstablish(c) ==
  /\ loaded[c] > 0
  /\ Cardinality(Created) < MaxSessions
  /\ LET s == Cardinality(Created) + 1 IN
       /\ sessSt' = [sessSt EXCEPT ![s] = "live"]
       /\ sessCreds' = [sessCreds EXCEPT ![s] = c]
       /\ sock' = Some(s)
  /\ loaded' = [loaded EXCEPT ![c] = @ - 1]
  /\ UNCHANGED <<qrCode, connected, phone, reconnectFn, material, loading,
                 timers, renders, logouts, terminated>>
  /\ NoResponse
  /\ UNCHANGED <<ingestVars, apiState>>

\* ------------------------------------------------- connection.update handler

\* The part of the handler from "if (connection === 'close')" on, for an
\* update of socket s; st is the record of the WhatsAppState fields and timers
\* it may assign.
ConnectionPart(s, connection, code, user, st) ==
  IF connection = "close" THEN
    LET shouldReconnect == code # LoggedOut
        c == SetConnected(FALSE, Null)
    IN IF shouldReconnect
       THEN [st EXCEPT !.connected = c.connected, !.phone = c.phone,
                       !.timers = Schedule(st.timers, ReconnectDelay)]
       ELSE [st EXCEPT !.connected = c.connected, !.phone = c.phone,
                       !.qrCode = Null,
                       !.timers = Schedule(st.timers, LoggedOutDelay)]
  ELSE IF connection = "open" THEN
    LET c == SetConnected(TRUE, ExtractPhone(user))
    IN [st EXCEPT !.connected = c.connected, !.phone = c.phone, !.qrCode = Null]
  ELSE st

CurrentSt == [connected |-> connected, phone |-> phone, qrCode |-> qrCode,
              timers |-> timers]

ApplySt(st) ==
  /\ connected' = st.connected
  /\ phone' = st.phone
  /\ qrCode' = st.qrCode
  /\ timers' = st.timers

\* Socket s emits {qr}: the handler suspends at await QRCode.toDataURL(qr).
QrUpdate(s) ==
  /\ sessSt[s] = "live"
  /\ sessCreds[s] = Null
  /\ Cardinality(renders) < MaxRenders
  /\ renders' = renders \cup {[s |-> s, qr |-> s, connection |-> "none"]}
  /\ UNCHANGED <<sock, qrCode, connected, phone, reconnectFn, sessSt, sessCreds,
                 material, loading, loaded, timers, logouts, terminated>>
  /\ NoResponse
  /\ UNCHANGED <<ingestVars, apiState>>

\* toDataURL settles: on success setQrCode(qrDataUrl), on failure only a log
\* line; then the rest of the handler runs.
QrRendered(r, ok) ==
  /\ r \in renders
  /\ renders' = renders \ {r}
  /\ LET st == IF ok THEN [CurrentSt EXCEPT !.qrCode = Some(ToDataURL(r.qr))]
               ELSE CurrentSt
     IN ApplySt(ConnectionPart(r.s, r.connection, ConnectionClosed, Null, st))
  /\ UNCHANGED <<sock, reconnectFn, sessSt, sessCreds, material, loading,
                 loaded, logouts, terminated>>
  /\ NoResponse
  /\ UNCHANGED <<ingestVars, apiState>>

\* Socket s emits {connection: 'open'}; Baileys does so once the socket is
\* authenticated, when sock.user is the paired account.
OpenUpdate(s, id) ==
  /\ sessSt[s] = "live"
  /\ sessCreds[s] # Null
  /\ sessSt' = [sessSt EXCEPT ![s] = "open"]
  /\ ApplySt(ConnectionPart(s, "open", ConnectionClosed, Some(id), CurrentSt))
  /\ UNCHANGED <<sock, reconnectFn, sessCreds, material, loading, loaded,
                 renders, logouts, terminated>>
  /\ NoResponse
  /\ UNCHANGED <<ingestVars, apiState>>

\* Socket s emits {connection: 'close', lastDisconnect} and is dead from then
\* on.
CloseUpdate(s, code) ==
  /\ sessSt[s] \in {"live", "open"}
  /\ Committed < MaxSessions
  /\ sessSt' = [sessSt EXCEPT ![s] = "closed"]
  /\ ApplySt(ConnectionPart(s, "close", code, Null, CurrentSt))
  /\ UNCHANGED <<sock, reconnectFn, sessCreds, material, loading, loaded,
                 renders, logouts, terminated>>
  /\ NoResponse
  /\ UNCHANGED <<ingestVars, apiState>>

\* The pairing code of socket s is scanned: the socket emits creds.update and
\* authState.saveCreds writes the new credentials to the session folder.
CredsUpdate(s) ==
  /\ sessSt[s] = "live"
  /\ sessCreds[s] = Null
  /\ material' = Some(s)
  /\ UNCHANGED <<sock, qrCode, connected, phone, reconnectFn, sessSt, sessCreds,
                 loading, loaded, timers, renders, logouts, terminated>>
  /\ NoResponse
  /\ UNCHANGED <<ingestVars, apiState>>

\* ------------------------------------------------------------- POST /logout

PendingLogouts == Sum(logouts, LogoutKeys)
TerminateCalls == Sum(terminated, Sessions)

LogoutBudget ==
  /\ TerminateCalls < MaxLogouts
  /\ Committed < MaxSessions

\* if (!whatsappState.sock) return 400 'Not connected'.
LogoutGuard == sock = Null

\* The request arrives (already authenticated): either the early 400, or the
\* handler calls sock.logout() and suspends on it.
LogoutRequest ==
  /\ ApiUp
  /\ IF LogoutGuard
     THEN /\ resp' = [route |-> "logout", code |-> 400, error |-> "Not connected"]
          /\ issuedConnected' = connected
          /\ NoData
          /\ UNCHANGED <<logouts, terminated>>
     ELSE /\ LogoutBudget
          /\ LET s == CHOOSE x \in sock : TRUE IN
               /\ logouts' = [logouts EXCEPT ![<<s, connected>>] = @ + 1]
               /\ terminated' = [terminated EXCEPT ![s] = @ + 1]
          /\ NoResponse
  /\ UNCHANGED <<sock, qrCode, connected, phone, reconnectFn, sessSt, sessCreds,
                 material, loading, loaded, timers, renders>>
  /\ UNCHANGED <<ingestVars, apiState>>

\* Mutant of LogoutOutcome: the session folder is not removed.
LogoutOutcomeKeepsSession(ok) ==
  IF ok THEN
    [connected |-> FALSE, phone |-> Null, sock |-> Null, material |-> material,
     timers |-> IF reconnectFn # Null THEN Schedule(timers, ApiLogoutDelay)
                ELSE timers,
     resp |-> [route |-> "logout", code |-> 200, error |-> ""]]
  ELSE
    [connected |-> connected, phone |-> phone, sock |-> sock,
     material |-> material, timers |-> timers,
     resp |-> [route |-> "logout", code |-> 500, error |-> "Logout failed"]]

\* Mutant of LogoutOutcome: the state is reset before the outcome of
\* sock.logout() is known, so also when it threw.
LogoutOutcomeResetsOnFailure(ok) ==
  [connected |-> FALSE, phone |-> Null, sock |-> Null,
   material |-> IF ok THEN Null ELSE material,
   timers |-> IF ok /\ reconnectFn # Null THEN Schedule(timers, ApiLogoutDelay)
              ELSE timers,
   resp |-> IF ok THEN [route |-> "logout", code |-> 200, error |-> ""]
            ELSE [route |-> "logout", code |-> 500, error |-> "Logout failed"]]

\* The handler from the point where sock.logout() settles: the rest of the
\* try block when it resolved (ok), the catch block when it threw.
LogoutOutcome(ok) ==
  IF ok THEN
    LET c == SetConnected(FALSE, Null) IN
    [connected |-> c.connected, phone |-> c.phone, sock |-> Null,
     material |-> Null,
     timers |-> IF reconnectFn # Null THEN Schedule(timers, ApiLogoutDelay)
                ELSE timers,
     resp |-> [route |-> "logout", code |-> 200, error |-> ""]]
  ELSE
    [connected |-> connected, phone |-> phone, sock |-> sock,
     material |-> material, timers |-> timers,
     resp |-> [route |-> "logout", code |-> 500, error |-> "Logout failed"]]

\* sock.logout() of a pending request settles.  A socket whose logout()
\* resolved has been ended by it.
LogoutSettles(k, ok) ==
  /\ logouts[k] > 0
  /\ logouts' = [logouts EXCEPT ![k] = @ - 1]
  /\ issuedConnected' = k[2]
  /\ LET r == LogoutOutcome(ok) IN
       /\ connected' = r.connected
       /\ phone' = r.phone
       /\ sock' = r.sock
       /\ material' = r.material
       /\ timers' = r.timers
       /\ resp' = r.resp
  /\ NoData
  /\ sessSt' = IF ok THEN [sessSt EXCEPT ![k[1]] = "closed"] ELSE sessSt
  /\ UNCHANGED <<qrCode, reconnectFn, sessCreds, loading, loaded, renders,
                 terminated>>
  /\ UNCHANGED <<ingestVars, apiState>>

\* ------------------------------------------------------------------ database

\* getISTTimestamp: the clock moved to UTC+5:30 and printed to the second as
\* 'YYYY-MM-DD HH:MM:SS'; such texts order as the seconds they print.
GetISTTimestamp == now + IstOffset

\* getMessageById: SELECT * FROM messages WHERE id = ?
GetMessageById(rows, id) ==
  LET hits == {i \in 1..Len(rows) : rows[i].id = id}
  IN IF hits = {} THEN Null ELSE Some(rows[CHOOSE i \in hits : TRUE])

\* Mutant of UpdateMessageStatus: the WHERE clause is left out.
UpdateEveryMessageStatus(rows, id, status) ==
  [rows |-> [i \in 1..Len(rows) |-> [rows[i] EXCEPT !.reply_status = status]],
   changes |-> Len(rows)]

\* Mutant of UpdateMessageStatus: the update also stamps the row with the
\* current time.
UpdateMessageStatusStamps(rows, id, status) ==
  [rows |-> [i \in 1..Len(rows) |->
               IF rows[i].id = id
               THEN [rows[i] EXCEPT !.reply_status = status, !.created_at = GetISTTimestamp]
               ELSE rows[i]],
   changes |-> Cardinality({i \in 1..Len(rows) : rows[i].id = id})]

\* updateMessageStatus: UPDATE messages SET reply_status = ? WHERE id = ?;
\* the rows after it and the number of rows it changed.
UpdateMessageStatus(rows, id, status) ==
  [rows |-> [i \in 1..Len(rows) |->
               IF rows[i].id = id THEN [rows[i] EXCEPT !.reply_status = status]
               ELSE rows[i]],
   changes |-> Cardinality({i \in 1..Len(rows) : rows[i].id = id})]

\* insertMessage: the row gets the next AUTOINCREMENT id (rows are never
\* deleted, so that is the number of rows plus one).
InsertMessage(rows, direction, ph, message, status, mediaType, mediaUrl, senderName) ==
  Append(rows, [id |-> Len(rows) + 1, direction |-> direction, phone |-> ph,
                sender_name |-> senderName, message |-> message,
                reply_status |-> status, media_type |-> mediaType,
                media_url |-> mediaUrl, created_at |-> GetISTTimestamp])

\* getWebhook: SELECT * FROM webhooks WHERE event = ? AND active = 1 LIMIT 1.
GetWebhook(table, event) ==
  LET hits == {i \in 1..Len(table) : table[i].event = event /\ table[i].active = 1}
  IN IF hits = {} THEN Null
     ELSE Some(table[CHOOSE i \in hits : \A j \in hits : i <= j])

\* DELETE FROM webhooks WHERE event = ?
DeleteWebhookRows(table, event) ==
  SelectSeq(table, LAMBDA r : r.event # event)

\* Mutant of SetWebhookRows: the rows of the event are not deleted first.
SetWebhookRowsKeepsOld(table, url, event) ==
  Append(table, [url |-> url, event |-> event, active |-> 1])

\* setWebhook: delete the rows of the event, insert the new one (active
\* defaults to 1).
SetWebhookRows(table, url, event) ==
  Append(DeleteWebhookRows(table, event),
         [url |-> url, event |-> event, active |-> 1])

Urls == {"https://hook.example/a", "https://hook.example/b"}

\* POST /webhook with a valid URL and DELETE /webhook, authenticated.
WebhookSet(url) ==
  /\ ApiUp
  /\ webhooks' = SetWebhookRows(webhooks, url, "message.received")
  /\ UNCHANGED <<messages, files, posts, ingest, delivered, rowEvent, dl>>
  /\ NoResponse
  /\ UNCHANGED <<connState, apiState>>

WebhookDelete ==
  /\ ApiUp
  /\ webhooks' = DeleteWebhookRows(webhooks, "message.received")
  /\ UNCHANGED <<messages, files, posts, ingest, delivered, rowEvent, dl>>
  /\ NoResponse
  /\ UNCHANGED <<connState, apiState>>

\* getApiKey: SELECT key FROM api_keys ORDER BY created_at DESC LIMIT 1; the
\* api_keys table is the set of its keys (key is UNIQUE).
GetApiKey(table) ==
  IF table = {} THEN Null ELSE Some(CHOOSE k \in table : TRUE)

\* Mutant of EnsureApiKeyRows: a new key is generated on every call.
EnsureApiKeyRegenerates(table, random) ==
  [table |-> {random}, key |-> random]

\* ensureApiKey: the stored key when there is one, else the base64 text of
\* crypto.randomBytes(32) is inserted and returned; random is that text.
EnsureApiKeyRows(table, random) ==
  LET existingKey == GetApiKey(table)
  IN IF existingKey # Null
     THEN [table |-> table, key |-> CHOOSE k \in existingKey : TRUE]
     ELSE [table |-> table \cup {random}, key |-> random]

\* Texts crypto.randomBytes(32).toString('base64') may give.
RandomKeys == {GeneratedKey, <<"k", "2">>, <<"1", "k">>}

\* ensureApiKey(database) is called, as index.js does when the process
\* starts; out is the key it returns and req.headers.key the text the
\* random generator would give to this call.
EnsureApiKey(random) ==
  /\ LET r == EnsureApiKeyRows(apiKey, random) IN
       /\ apiKey' = r.table
       /\ out' = Some(r.key)
  /\ resp' = [route |-> "ensureApiKey", code |-> 0, error |-> ""]
  /\ issuedConnected' = FALSE
  /\ req' = [NoReq EXCEPT !.route = "ensureApiKey", !.headers.key = Some(random)]
  /\ UNCHANGED <<connState, ingestVars, config, now, sent, replies>>

\* ------------------------------------------------- messages.upsert handler

\* A JavaScript string or optional string that counts as false: undefined,
\* null or ''.
Truthy(opt) == opt # Null /\ opt # Some("")

\* a || b || c || '' over optional strings.
FirstTruthy(opts) ==
  LET hits == {i \in 1..Len(opts) : Truthy(opts[i])}
  IN IF hits = {} THEN ""
     ELSE CHOOSE v \in opts[CHOOSE i \in hits : \A j \in hits : i <= j] : TRUE

\* A jid is the sequence of its tokens, "<user>" and "@<server>".
EndsWith(jid, token) == jid # <<>> /\ jid[Len(jid)] = token
Includes(jid, token) == \E i \in 1..Len(jid) : jid[i] = token

\* Mutant of ResolveFrom: the participant is taken whenever there is one.
ResolveFromAnyParticipant(key) ==
  IF key.participant # Null THEN key.participant ELSE key.remoteJid

\* let from = msg.key.remoteJid, replaced by msg.key.participant when from
\* ends with '@lid' and the participant includes '@s.whatsapp.net'.
ResolveFrom(key) ==
  IF key.remoteJid # Null
     /\ EndsWith(CHOOSE j \in key.remoteJid : TRUE, "@lid")
     /\ key.participant # Null
     /\ Includes(CHOOSE j \in key.participant : TRUE, "@s.whatsapp.net")
  THEN key.participant
  ELSE key.remoteJid

\* Mutant of ExtractText: the image caption is looked at first.
ExtractTextCaptionFirst(body) ==
  FirstTruthy(<<IF body.imageMessage = Null THEN Null
                ELSE (CHOOSE im \in body.imageMessage : TRUE).caption,
                body.conversation, body.extendedText>>)

\* msg.message.conversation || msg.message.extendedTextMessage?.text ||
\* imageMessage?.caption || ''
ExtractText(body) ==
  FirstTruthy(<<body.conversation, body.extendedText,
                IF body.imageMessage = Null THEN Null
                ELSE (CHOOSE im \in body.imageMessage : TRUE).caption>>)

\* `${messageId}.jpg`
Filename(id) == <<id, ".jpg">>

\* Mutant of CallWebhook: the POST is issued a second time.
CallWebhookTwice(st, url, data) ==
  [st |-> [st EXCEPT !.posts = @ \o << [url |-> url, data |-> data, result |-> "pending",
      promise |-> "pending"],
                                       [url |-> url, data |-> data, result |-> "pending",
      promise |-> "pending"] >>],
   awaited |-> FALSE]

\* Mutant of CallWebhook: the handler awaits the call.
CallWebhookAwaited(st, url, data) ==
  [st |-> [st EXCEPT !.posts = Append(@, [url |-> url, data |-> data,
                                          result |-> "pending",
      promise |-> "pending"])],
   awaited |-> TRUE]

\* callWebhook(url, data, logger) as the handler sees it: fetch is started
\* and, the call not being awaited, the handler goes on at once.
CallWebhook(st, url, data) ==
  [st |-> [st EXCEPT !.posts = Append(@, [url |-> url, data |-> data,
                                          result |-> "pending",
      promise |-> "pending"])],
   awaited |-> FALSE]

\* Mutant of Store: the webhook is called right after the insert, before the
\* file is written and the row updated.
StorePostsFirst(st, item, mediaType, buffer) ==
  LET msg == item.msg
      from == ResolveFrom(msg.key)
      text == ExtractText(CHOOSE b \in msg.message : TRUE)
      messageId == Len(st.messages) + 1
      inserted == [st EXCEPT
                     !.messages = InsertMessage(@, "incoming", from, text, "unread",
                                                mediaType, Null, msg.pushName),
                     !.rowEvent = Append(@, item.ev)]
      webhook == GetWebhook(webhooks, "message.received")
      posted == IF webhook # Null /\ Truthy(Some((CHOOSE w \in webhook : TRUE).url))
                THEN CallWebhook(inserted, (CHOOSE w \in webhook : TRUE).url,
                      [event |-> "message.received",
                       message |-> [id |-> messageId, from |-> from, text |-> text,
                                    mediaType |-> mediaType, mediaUrl |-> Null]]).st
                ELSE inserted
      saved == IF buffer
               THEN [posted EXCEPT !.files = @ \cup {Filename(messageId)},
                                   !.messages[messageId].media_url = Some(Filename(messageId))]
               ELSE posted
  IN IF item.fate = "dbFail" THEN [st |-> st, awaited |-> FALSE]
     ELSE IF buffer /\ item.fate = "fsFail" THEN [st |-> posted, awaited |-> FALSE]
     ELSE [st |-> saved, awaited |-> FALSE]

\* The try block from "Insert message to get the ID" to the webhook call, for
\* an event that is to be stored; buffer says whether imageBuffer is set.
\* item.fate is what the environment does to this event's writes: "dbFail"
\* makes insertMessage throw, "fsFail" makes fs.writeFileSync throw; the outer
\* catch logs and goes on to the next event.
Store(st, item, mediaType, buffer) ==
  LET msg == item.msg
      from == ResolveFrom(msg.key)
      text == ExtractText(CHOOSE b \in msg.message : TRUE)
      messageId == Len(st.messages) + 1
      inserted == [st EXCEPT
                     !.messages = InsertMessage(@, "incoming", from, text, "unread",
                                                mediaType, Null, msg.pushName),
                     !.rowEvent = Append(@, item.ev)]
      mediaUrl == IF buffer THEN Some(Filename(messageId)) ELSE Null
      saved == IF buffer
               THEN [inserted EXCEPT !.files = @ \cup {Filename(messageId)},
                                     !.messages[messageId].media_url = mediaUrl]
               ELSE inserted
      webhook == GetWebhook(webhooks, "message.received")
  IN IF item.fate = "dbFail" THEN [st |-> st, awaited |-> FALSE]
     ELSE IF buffer /\ item.fate = "fsFail" THEN [st |-> inserted, awaited |-> FALSE]
     ELSE IF webhook # Null /\ Truthy(Some((CHOOSE w \in webhook : TRUE).url))
     THEN CallWebhook(saved, (CHOOSE w \in webhook : TRUE).url,
                      [event |-> "message.received",
                       message |-> [id |-> messageId, from |-> from, text |-> text,
                                    mediaType |-> mediaType, mediaUrl |-> mediaUrl]])
     ELSE [st |-> saved, awaited |-> FALSE]

\* Mutant of ToBeStored: the fromMe test is left out.
ToBeStoredWithEchoes(msg) ==
  /\ msg.message # Null
  /\ LET body == CHOOSE b \in msg.message : TRUE IN
       (Truthy(Some(ExtractText(body))) \/ body.imageMessage # Null)

\* Mutant of ToBeStored: an event of a sender who has a row already is
\* dropped.
ToBeStoredOnce(msg) ==
  /\ msg.message # Null
  /\ LET body == CHOOSE b \in msg.message : TRUE IN
       /\ ~msg.key.fromMe
       /\ (Truthy(Some(ExtractText(body))) \/ body.imageMessage # Null)
  /\ \A i \in 1..Len(messages) : messages[i].phone # ResolveFrom(msg.key)

\* if (!msg.key.fromMe && (text || imageMessage))
ToBeStored(msg) ==
  /\ msg.message # Null
  /\ LET body == CHOOSE b \in msg.message : TRUE IN
       /\ ~msg.key.fromMe
       /\ (Truthy(Some(ExtractText(body))) \/ body.imageMessage # Null)

HasImage(msg) ==
  msg.message # Null /\ (CHOOSE b \in msg.message : TRUE).imageMessage # Null

\* The for loop over the batch from its current position to the next await
\* or to its end: the state it leaves and the suspended invocation, if any.
RECURSIVE RunLoop(_, _)
AfterStore(r, item, rest) ==
  IF r.awaited
  THEN [st |-> r.st,
        susp |-> Some([cur |-> item, rest |-> rest, at |-> "webhook",
                       post |-> Len(r.st.posts)])]
  ELSE RunLoop(rest, r.st)

RunLoop(queue, st) ==
  IF queue = <<>> THEN [st |-> st, susp |-> Null]
  ELSE LET item == Head(queue) IN
    IF ~ToBeStored(item.msg) THEN RunLoop(Tail(queue), st)
    ELSE IF HasImage(item.msg)
    THEN [st |-> [st EXCEPT !.dl[item.ev] = "pending"],
          susp |-> Some([cur |-> item, rest |-> Tail(queue), at |-> "download",
                         post |-> 0])]
    ELSE AfterStore(Store(st, item, "text", FALSE), item, Tail(queue))

IngestSt == [messages |-> messages, rowEvent |-> rowEvent, files |-> files,
             posts |-> posts, dl |-> dl]

ApplyIngest(r) ==
  /\ messages' = r.st.messages
  /\ rowEvent' = r.st.rowEvent
  /\ files' = r.st.files
  /\ posts' = r.st.posts
  /\ dl' = r.st.dl

\* ---- the inbound events of the model

Jid(user, server) == Some(<<user, server>>)

TextBody(text) ==
  Some([conversation |-> Some(text), extendedText |-> Null, imageMessage |-> Null])
ImageBody(caption) ==
  Some([conversation |-> Null, extendedText |-> Null,
        imageMessage |-> Some([caption |-> caption])])
CaptionedTextBody(text, caption) ==
  Some([conversation |-> Some(text), extendedText |-> Null,
        imageMessage |-> Some([caption |-> Some(caption)])])
EmptyBody ==
  Some([conversation |-> Some(""), extendedText |-> Null, imageMessage |-> Null])

Message(remoteJid, participant, fromMe, pushName, message) ==
  [key |-> [remoteJid |-> remoteJid, participant |-> participant, fromMe |-> fromMe],
   pushName |-> pushName, message |-> message]

InboundMsgs ==
  { Message(Jid("111", "@s.whatsapp.net"), Null, FALSE, Some("Ann"), TextBody("hi")),
    Message(Jid("777", "@lid"), Jid("222", "@s.whatsapp.net"), FALSE, Null,
            ImageBody(Some("cap"))),
    Message(Jid("111", "@s.whatsapp.net"), Null, FALSE, Null, ImageBody(Null)),
    Message(Jid("333", "@s.whatsapp.net"), Null, FALSE, Null,
            CaptionedTextBody("hi", "cap")),
    Message(Jid("111", "@s.whatsapp.net"), Null, TRUE, Null, TextBody("mine")),
    Message(Jid("111", "@s.whatsapp.net"), Null, FALSE, Null, Null),
    Message(Jid("111", "@s.whatsapp.net"), Null, FALSE, Null, EmptyBody) }

\* What can go wrong with the writes of an event: nothing for an event that
\* is not stored, the insert for a stored one, the file write for an image.
Fates(msg) ==
  IF ~ToBeStored(msg) THEN {"ok"}
  ELSE IF HasImage(msg) THEN {"ok", "dbFail", "fsFail"}
  ELSE {"ok", "dbFail"}

Deliverable == {[msg |-> m, fate |-> f] : m \in InboundMsgs, f \in {"ok", "dbFail", "fsFail"}}

Batches ==
  UNION {[1..n -> {d \in Deliverable : d.fate \in Fates(d.msg)}] : n \in 1..MaxBatch}

UpsertTypes == {"notify", "append"}

\* Socket s emits messages.upsert {messages: batch, type}.
Upsert(s, type, batch) ==
  /\ sessSt[s] = "open"
  /\ delivered + Len(batch) <= MaxEvents
  /\ delivered' = delivered + Len(batch)
  /\ IF type # "notify"
     THEN UNCHANGED <<messages, rowEvent, files, posts, dl, ingest>>
     ELSE LET queue == [i \in 1..Len(batch) |->
                          [ev |-> delivered + i, msg |-> batch[i].msg,
                           fate |-> batch[i].fate]]
              r == RunLoop(queue, IngestSt)
          IN ApplyIngest(r) /\ ingest' = ingest \cup r.susp
  /\ UNCHANGED webhooks
  /\ NoResponse
  /\ UNCHANGED <<connState, apiState>>

\* Mutant of MediaTypeAfterDownload: mediaType is set before the download.
MediaTypeSetBeforeDownload(ok) == "image"

\* let mediaType = 'text'; it becomes 'image' only when downloadMediaMessage
\* resolved, the catch of a failed download only logs.
MediaTypeAfterDownload(ok) == IF ok THEN "image" ELSE "text"

\* downloadMediaMessage of a suspended invocation settles; the event is stored
\* and the loop goes on.
DownloadSettles(h, ok) ==
  /\ h \in ingest
  /\ h.at = "download"
  /\ LET st == [IngestSt EXCEPT !.dl[h.cur.ev] = IF ok THEN "ok" ELSE "failed"]
         r == AfterStore(Store(st, h.cur, MediaTypeAfterDownload(ok), ok),
                         h.cur, h.rest)
     IN ApplyIngest(r) /\ ingest' = (ingest \ {h}) \cup r.susp
  /\ UNCHANGED <<webhooks, delivered>>
  /\ NoResponse
  /\ UNCHANGED <<connState, apiState>>

\* callWebhook: the fetch of POST j settles: "ok" logs success, "status" (a
\* non-2xx answer) a warning, "error" (timeout, connection or transport
\* error) an error.  Nothing is thrown to the caller.
PostOutcomes == {"ok", "status", "error"}

\* Mutant of PromiseAfterFetch: callWebhook without its try/catch, an error
\* of fetch rejects the promise it returned.
PromiseWithoutCatch(outcome) ==
  IF outcome = "error" THEN "rejected" ELSE "resolved"

\* The promise callWebhook returned, once fetch has settled: the try block
\* logs both kinds of answer and the catch logs the error, so the function
\* returns normally on every path.
PromiseAfterFetch(outcome) ==
  IF outcome = "ok" THEN "resolved"
  ELSE IF outcome = "status" THEN "resolved"
  ELSE "resolved"

PostSettles(j, outcome) ==
  /\ j \in 1..Len(posts)
  /\ posts[j].result = "pending"
  /\ LET st == [IngestSt EXCEPT !.posts[j].result = outcome,
                                !.posts[j].promise = PromiseAfterFetch(outcome)]
         waiting == {h \in ingest : h.at = "webhook" /\ h.post = j}
     IN IF waiting = {}
        THEN ApplyIngest([st |-> st]) /\ UNCHANGED ingest
        ELSE LET h == CHOOSE x \in waiting : TRUE
                 r == RunLoop(h.rest, st)
             IN ApplyIngest(r) /\ ingest' = (ingest \ {h}) \cup r.susp
  /\ UNCHANGED <<webhooks, delivered>>
  /\ NoResponse
  /\ UNCHANGED <<connState, apiState>>

\* ------------------------------------------------------------ authentication

\* Characters that UTF-8 encodes in two bytes; every other character of the
\* model is ASCII.
TwoByteChars == {"eacute"}

\* Buffer.from(s).length of a string s.
ByteLength(s) ==
  Len(s) + Cardinality({i \in 1..Len(s) : s[i] \in TwoByteChars})

\* !s for an optional string of characters: undefined, null or ''.
Falsy(opt) == opt = Null \/ opt = Some(<<>>)

\* timingSafeCompare(a, b): "false" on a missing or empty argument or on
\* different lengths; otherwise crypto.timingSafeEqual on the UTF-8 bytes,
\* which throws a RangeError when the byte lengths differ.
TimingSafeCompare(a, b) ==
  IF Falsy(a) \/ Falsy(b) THEN "false"
  ELSE LET x == CHOOSE s \in a : TRUE
           y == CHOOSE s \in b : TRUE
       IN IF Len(x) # Len(y) THEN "false"
          ELSE IF ByteLength(x) # ByteLength(y) THEN "throws"
          ELSE IF x = y THEN "true" ELSE "false"

Admit == [admit |-> TRUE, code |-> 0, error |-> "", challenge |-> FALSE]
Reject(code, error, challenge) ==
  [admit |-> FALSE, code |-> code, error |-> error, challenge |-> challenge]

\* An exception thrown by a middleware reaches the default error handler of
\* Express, which answers 500.
Thrown == Reject(500, "Internal Server Error", FALSE)

\* authenticateApiKey: header is req.headers['x-api-key'], stored the row
\* getApiKey returns.
AuthenticateApiKey(header, stored) ==
  IF Falsy(header) THEN Reject(401, "API key required", FALSE)
  ELSE IF stored = Null THEN Reject(500, "API key not configured", FALSE)
  ELSE LET isValid == TimingSafeCompare(header, stored)
       IN IF isValid = "throws" THEN Thrown
          ELSE IF isValid = "false" THEN Reject(401, "Invalid API key", FALSE)
          ELSE Admit

\* s.split(sep) for a one-character separator.
RECURSIVE Split(_, _)
Split(s, sep) ==
  LET hits == {i \in 1..Len(s) : s[i] = sep}
  IN IF hits = {} THEN <<s>>
     ELSE LET i == CHOOSE h \in hits : \A g \in hits : h <= g
          IN <<SubSeq(s, 1, i - 1)>> \o Split(SubSeq(s, i + 1, Len(s)), sep)

\* An Authorization header is [scheme, payload]; the payload of a Basic
\* header made by a client is the base64 text of "user:password".
ToBase64(text) == <<"base64", text>>

\* Buffer.from(payload, 'base64').toString('utf-8'); a payload that is not
\* base64 text decodes to no character at all.
FromBase64(payload) ==
  IF Len(payload) = 2 /\ payload[1] = "base64" THEN payload[2] ELSE <<>>

\* authenticateBasicAuth: header is req.headers.authorization.
AuthenticateBasicAuth(header, cfg) ==
  IF header = Null \/ (CHOOSE h \in header : TRUE).scheme # "Basic"
  THEN Reject(401, "Authentication required", TRUE)
  ELSE LET credentials == FromBase64((CHOOSE h \in header : TRUE).payload)
           parts == Split(credentials, ":")
           username == Some(parts[1])
           password == IF Len(parts) >= 2 THEN Some(parts[2]) ELSE Null
           validUsername == TimingSafeCompare(username, Some(cfg.DASHBOARD_USER))
           validPassword == IF validUsername = "throws" THEN "throws"
                            ELSE TimingSafeCompare(password, Some(cfg.DASHBOARD_PASSWORD))
       IN IF validUsername = "throws" \/ validPassword = "throws" THEN Thrown
          ELSE IF validUsername = "false" \/ validPassword = "false"
          THEN Reject(401, "Invalid credentials", TRUE)
          ELSE Admit

\* -------------------------------------------------------------------- routes

\* createRoutes: the middleware each route is registered with.
ApiKeyRoutes == {"GET /status", "POST /logout", "GET /inbox",
                 "POST /messages/:id/reply", "PATCH /messages/:id/status"}
BasicRoutes == {"GET /config", "GET /webhook", "POST /webhook", "DELETE /webhook"}

Middleware(route, headers) ==
  IF route \in ApiKeyRoutes THEN AuthenticateApiKey(headers.key, apiKey)
  ELSE IF route \in BasicRoutes THEN AuthenticateBasicAuth(headers.authorization, config)
  ELSE Admit

\* The WWW-Authenticate header of a rejection.
Challenge == [WWW_Authenticate |-> "Basic realm=Dashboard"]

Request(route, headers, id, body, ran) ==
  [route |-> route, headers |-> headers, id |-> id, body |-> body, ran |-> ran]

\* The response of a handler: status code, error text and data.
Respond(route, code, error, data) ==
  /\ resp' = [route |-> route, code |-> code, error |-> error]
  /\ out' = data
  /\ issuedConnected' = connected

\* A request to a protected route that its middleware does not admit: the
\* middleware answers and the handler is not called.
Rejected(route, headers) ==
  /\ ApiUp
  /\ LET m == Middleware(route, headers) IN
       /\ ~m.admit
       /\ Respond(route, m.code, m.error, IF m.challenge THEN Some(Challenge) ELSE Null)
  /\ req' = Request(route, headers, 0, NoBody, FALSE)
  /\ UNCHANGED <<connState, ingestVars, apiState>>

\* Mutant of GetMessageCount: the WHERE clause is left out.
GetMessageCountAll(rows) == Len(rows)

\* getMessageCount: SELECT COUNT(*) FROM messages WHERE direction = 'incoming'.
GetMessageCount(rows) ==
  Cardinality({i \in 1..Len(rows) : rows[i].direction = "incoming"})

\* whatsappState.getStatus()
GetStatus == [connected |-> connected, phone |-> phone, hasQrCode |-> qrCode # Null]

\* GET /status
StatusRequest(headers) ==
  /\ ApiUp
  /\ Middleware("GET /status", headers).admit
  /\ Respond("GET /status", 200, "",
             Some([connected |-> GetStatus.connected, phone |-> GetStatus.phone,
                   messageCount |-> GetMessageCount(messages)]))
  /\ req' = Request("GET /status", headers, 0, NoBody, TRUE)
  /\ UNCHANGED <<connState, ingestVars, apiState>>

\* GET /config
ConfigRequest(headers) ==
  /\ ApiUp
  /\ Middleware("GET /config", headers).admit
  /\ Respond("GET /config", 200, "",
             Some([apiKey |-> apiKey, connected |-> GetStatus.connected,
                   phone |-> GetStatus.phone,
                   messageCount |-> GetMessageCount(messages)]))
  /\ req' = Request("GET /config", headers, 0, NoBody, TRUE)
  /\ UNCHANGED <<connState, ingestVars, apiState>>

\* Mutant of QrRequest: the stored QR code is looked at before the
\* connection.
QrRequestCodeFirst ==
  /\ ApiUp
  /\ IF qrCode # Null
     THEN Respond("GET /qr", 200, "",
                  Some([qr |-> CHOOSE q \in qrCode : TRUE,
                        message |-> "Scan this QR code with WhatsApp"]))
     ELSE IF GetStatus.connected
     THEN Respond("GET /qr", 400, "Already connected to WhatsApp", Null)
     ELSE Respond("GET /qr", 400,
                  "QR code not available. Please restart the server.", Null)
  /\ req' = Request("GET /qr", NoHeaders, 0, NoBody, TRUE)
  /\ UNCHANGED <<connState, ingestVars, apiState>>

\* GET /qr (public)
QrRequest ==
  /\ ApiUp
  /\ IF GetStatus.connected
     THEN Respond("GET /qr", 400, "Already connected to WhatsApp", Null)
     ELSE IF qrCode # Null
     THEN Respond("GET /qr", 200, "",
                  Some([qr |-> CHOOSE q \in qrCode : TRUE,
                        message |-> "Scan this QR code with WhatsApp"]))
     ELSE Respond("GET /qr", 400,
                  "QR code not available. Please restart the server.", Null)
  /\ req' = Request("GET /qr", NoHeaders, 0, NoBody, TRUE)
  /\ UNCHANGED <<connState, ingestVars, apiState>>

\* image.startsWith('http://') || image.startsWith('https://'), an image
\* being the sequence of its tokens.
IsUrl(image) == image # <<>> /\ image[1] \in {"http://", "https://"}

\* What POST /messages/:id/reply sends and stores for a body: the content
\* given to sendMessage, mediaType and mediaUrl.
ReplyContent(body) ==
  IF ~Falsy(body.image)
  THEN LET image == CHOOSE x \in body.image : TRUE IN
       [content |-> [image |-> IF IsUrl(image) THEN [url |-> image]
                               ELSE [buffer |-> image],
                     caption |-> FirstTruthy(<<body.message>>)],
        mediaType |-> "image",
        mediaUrl |-> IF IsUrl(image) THEN Some(image) ELSE Some(<<"base64">>)]
  ELSE [content |-> [text |-> body.message],
        mediaType |-> "text", mediaUrl |-> Null]

\* Mutant of ReplyChecks: the connection is checked before the body.
ReplyChecksConnectionFirst(body, rows, id) ==
  IF ~connected \/ sock = Null
  THEN [code |-> 400, error |-> "WhatsApp not connected"]
  ELSE IF ~Truthy(body.message) /\ Falsy(body.image)
  THEN [code |-> 400, error |-> "Message or image is required"]
  ELSE IF GetMessageById(rows, id) = Null
  THEN [code |-> 404, error |-> "Message not found"]
  ELSE [code |-> 0, error |-> ""]

\* The checks POST /messages/:id/reply makes before it sends, in the order
\* of the handler: the body, the connection, the original message. Code 0
\* stands for no early answer.
ReplyChecks(body, rows, id) ==
  IF ~Truthy(body.message) /\ Falsy(body.image)
  THEN [code |-> 400, error |-> "Message or image is required"]
  ELSE IF ~connected \/ sock = Null
  THEN [code |-> 400, error |-> "WhatsApp not connected"]
  ELSE IF GetMessageById(rows, id) = Null
  THEN [code |-> 404, error |-> "Message not found"]
  ELSE [code |-> 0, error |-> ""]

\* POST /messages/:id/reply up to await sock.sendMessage(...): one of the
\* three early answers, or the send is started and the handler suspends.
ReplyRequest(headers, id, body) ==
  /\ ApiUp
  /\ Middleware("POST /messages/:id/reply", headers).admit
  /\ LET check == ReplyChecks(body, messages, id) IN
       IF check.code # 0
       THEN /\ Respond("POST /messages/:id/reply", check.code, check.error, Null)
            /\ req' = Request("POST /messages/:id/reply", headers, id, body, TRUE)
            /\ UNCHANGED <<sent, replies>>
       ELSE /\ Len(sent) < MaxSends
            /\ LET original == CHOOSE m \in GetMessageById(messages, id) : TRUE
                   r == ReplyContent(body)
               IN /\ sent' = Append(sent, [sock |-> sock, jid |-> original.phone,
                                           content |-> r.content])
                  /\ replies' = replies \cup
                       {[headers |-> headers, id |-> id, body |-> body,
                         phone |-> original.phone, send |-> Len(sent) + 1]}
            /\ NoResponse
  /\ UNCHANGED <<connState, ingestVars, apiKey, config, now>>

\* Mutant of ReplyOutcome: the original message is not marked.
ReplyOutcomeKeepsStatus(rows, h, ok) ==
  IF ok
  THEN [rows |-> InsertMessage(rows, "outgoing", h.phone, FirstTruthy(<<h.body.message>>),
                               "sent", ReplyContent(h.body).mediaType,
                               ReplyContent(h.body).mediaUrl, Null),
        code |-> 200, error |-> ""]
  ELSE [rows |-> rows, code |-> 500, error |-> "Failed to send reply"]

\* Mutant of ReplyOutcome: the outgoing message is stored before the send
\* is known to have worked.
ReplyOutcomeStoresOnFailure(rows, h, ok) ==
  [rows |-> InsertMessage(rows, "outgoing", h.phone, FirstTruthy(<<h.body.message>>),
                          "sent", ReplyContent(h.body).mediaType,
                          ReplyContent(h.body).mediaUrl, Null),
   code |-> IF ok THEN 200 ELSE 500,
   error |-> IF ok THEN "" ELSE "Failed to send reply"]

\* Mutant of ReplyOutcome: the outgoing row is stored with the phone of the
\* connected account.
ReplyOutcomeStoresOwnPhone(rows, h, ok) ==
  IF ok
  THEN LET stored == InsertMessage(rows, "outgoing", phone,
                                   FirstTruthy(<<h.body.message>>), "sent",
                                   ReplyContent(h.body).mediaType,
                                   ReplyContent(h.body).mediaUrl, Null)
       IN [rows |-> UpdateMessageStatus(stored, h.id, "replied").rows,
           code |-> 200, error |-> ""]
  ELSE [rows |-> rows, code |-> 500, error |-> "Failed to send reply"]

\* The handler from the point where sendMessage settles: insertMessage,
\* updateMessageStatus and 200 when it resolved, the catch block when it
\* threw.
ReplyOutcome(rows, h, ok) ==
  IF ok
  THEN LET stored == InsertMessage(rows, "outgoing", h.phone,
                                   FirstTruthy(<<h.body.message>>), "sent",
                                   ReplyContent(h.body).mediaType,
                                   ReplyContent(h.body).mediaUrl, Null)
       IN [rows |-> UpdateMessageStatus(stored, h.id, "replied").rows,
           code |-> 200, error |-> ""]
  ELSE [rows |-> rows, code |-> 500, error |-> "Failed to send reply"]

\* sock.sendMessage of a suspended reply settles.
ReplySettles(h, ok) ==
  /\ h \in replies
  /\ replies' = replies \ {h}
  /\ LET r == ReplyOutcome(messages, h, ok) IN
       /\ messages' = r.rows
       /\ rowEvent' = IF Len(r.rows) > Len(messages) THEN Append(rowEvent, 0)
                      ELSE rowEvent
       /\ Respond("POST /messages/:id/reply", r.code, r.error, Null)
  /\ req' = Request("POST /messages/:id/reply", h.headers, h.id, h.body, TRUE)
  /\ UNCHANGED <<connState, webhooks, files, posts, ingest, delivered, dl,
                 apiKey, config, now, sent>>

ValidStatuses == {"unread", "replied", "ignored", "sent"}

\* PATCH /messages/:id/status
StatusPatch(headers, id, body) ==
  /\ ApiUp
  /\ Middleware("PATCH /messages/:id/status", headers).admit
  /\ LET result == UpdateMessageStatus(messages, id, CHOOSE s \in body.status : TRUE)
         answer(code, error) ==
           Respond("PATCH /messages/:id/status", code, error, Null)
     IN IF ~Truthy(body.status)
        THEN answer(400, "Status is required") /\ UNCHANGED messages
        ELSE IF (CHOOSE s \in body.status : TRUE) \notin ValidStatuses
        THEN answer(400, "Invalid status. Must be one of: unread, replied, ignored, sent")
             /\ UNCHANGED messages
        ELSE IF result.changes = 0
        THEN answer(404, "Message not found") /\ messages' = result.rows
        ELSE answer(200, "") /\ messages' = result.rows
  /\ req' = Request("PATCH /messages/:id/status", headers, id, body, TRUE)
  /\ UNCHANGED <<connState, webhooks, files, posts, ingest, delivered, rowEvent, dl,
                 apiState>>

\* The columns GET /inbox selects.
InboxRow(m) ==
  [id |-> m.id, type |-> m.direction, phone |-> m.phone, message |-> m.message,
   status |-> m.reply_status, media_type |-> m.media_type,
   media_url |-> m.media_url, timestamp |-> m.created_at]

\* WHERE direction = 'incoming' AND reply_status = 'unread'
InboxSelection(rows) ==
  {i \in 1..Len(rows) : rows[i].direction = "incoming" /\ rows[i].reply_status = "unread"}

\* ORDER BY created_at DESC: every order of the selected rows in which
\* created_at never increases; SQL leaves the order of rows with the same
\* created_at open.
InboxOrders(rows) ==
  LET sel == InboxSelection(rows)
      n == Cardinality(sel)
  IN {o \in [1..n -> sel] :
        /\ \A i, j \in 1..n : o[i] = o[j] => i = j
        /\ \A i, j \in 1..n : i < j => rows[o[i]].created_at >= rows[o[j]].created_at}

\* GET /inbox
InboxRequest(headers, o) ==
  /\ ApiUp
  /\ Middleware("GET /inbox", headers).admit
  /\ o \in InboxOrders(messages)
  /\ Respond("GET /inbox", 200, "", Some([i \in DOMAIN o |-> InboxRow(messages[o[i]])]))
  /\ req' = Request("GET /inbox", headers, 0, NoBody, TRUE)
  /\ UNCHANGED <<connState, ingestVars, apiState>>

\* A second passes.
Tick ==
  /\ now < MaxClock
  /\ now' = now + 1
  /\ NoResponse
  /\ UNCHANGED <<connState, ingestVars, apiKey, config, sent, replies>>

\* ---- the requests of the model

RECURSIVE SeqsUpTo(_, _)
SeqsUpTo(S, n) ==
  IF n = 0 THEN {<<>>}
  ELSE LET shorter == SeqsUpTo(S, n - 1)
       IN shorter \cup {Append(s, c) : s \in shorter, c \in S}

\* The keys api_keys may hold: none (a database ensureApiKey never ran on),
\* the generated one, a shorter one.
StoredKeys == {Null, Some(GeneratedKey), Some(<<"k">>)}

KeyHeaders ==
  {Null} \cup {Some(s) : s \in SeqsUpTo({"k", "1", "eacute"}, MaxKeyLen)}

\* DASHBOARD_USER and DASHBOARD_PASSWORD are never empty (config.js falls
\* back to the defaults); a password may hold a colon.
Configs ==
  {[DASHBOARD_USER |-> u, DASHBOARD_PASSWORD |-> pw] :
     u \in {<<"a">>, <<"a", "b">>}, pw \in {<<"p">>, <<"p", ":", "q">>}}

\* The text a client encodes for a user and a password.
Credentials(user, password) == user \o <<":">> \o password

CredTexts ==
  SeqsUpTo({"a", "p", ":", "eacute"}, MaxCredLen)
    \cup {Credentials(c.DASHBOARD_USER, c.DASHBOARD_PASSWORD) : c \in Configs}

AuthorizationHeaders ==
  {Null, Some([scheme |-> "Bearer", payload |-> ToBase64(<<"a", ":", "p">>)]),
   Some([scheme |-> "Basic", payload |-> <<>>]),
   Some([scheme |-> "Basic", payload |-> <<"%">>])}
    \cup {Some([scheme |-> "Basic", payload |-> ToBase64(x)]) : x \in CredTexts}

WithKey(h) == [key |-> h, authorization |-> Null]
WithAuthorization(h) == [key |-> Null, authorization |-> h]

\* Headers of the requests to the handlers: the stored key, no key, a wrong
\* key, a key of the stored length with a two-byte character; the
\* configured credentials, none, a wrong password, the configured
\* credentials followed by one more part.
ApiHeaders ==
  {WithKey(h) : h \in {Null, Some(GeneratedKey), Some(<<"k">>), Some(<<"k", "eacute">>)}}
    \cup {WithAuthorization(h) :
            h \in {Null} \cup
              {Some([scheme |-> "Basic", payload |-> ToBase64(x)]) :
                 x \in {<<"a", ":", "p">>, <<"a", ":", "a">>, <<"a", ":", "p", ":", "a">>}}}

\* Two inbound text messages of different senders, as batches.
ApiMsgs ==
  { Message(Jid("111", "@s.whatsapp.net"), Null, FALSE, Some("Ann"), TextBody("hi")),
    Message(Jid("222", "@s.whatsapp.net"), Null, FALSE, Null, TextBody("yo")) }

ApiBatches ==
  UNION {[1..n -> {[msg |-> m, fate |-> "ok"] : m \in ApiMsgs}] : n \in 1..MaxBatch}

\* :id parameters: the ids the table can hold and one more.
Ids == 1..(MaxEvents + MaxSends + 1)

ReplyBodies ==
  {[message |-> m, image |-> i, status |-> Null] :
     m \in {Null, Some("ok")},
     i \in {Null, Some(<<"https://", "x/i.png">>), Some(<<"iVBOR">>)}}
    \cup {[message |-> Some(""), image |-> Null, status |-> Null]}

StatusBodies ==
  {[message |-> Null, image |-> Null, status |-> s] :
     s \in {Null, Some("bogus")} \cup {Some(v) : v \in ValidStatuses}}

TextReply == [message |-> Some("ok"), image |-> Null, status |-> Null]
MarkIgnored == [message |-> Null, image |-> Null, status |-> Some("ignored")]
FirstBatch ==
  <<[msg |-> Message(Jid("111", "@s.whatsapp.net"), Null, FALSE, Some("Ann"), TextBody("hi")),
     fate |-> "ok"]>>

\* ----------------------------------------------------------------------- Next

NextConn ==
  \/ \E d \in Delays : TimerFires(d)
  \/ AuthStateRead
  \/ \E c \in CredsOpts : ConnectEstablish(c)
  \/ \E s \in Sessions : QrUpdate(s)
  \/ \E r \in renders, ok \in BOOLEAN : QrRendered(r, ok)
  \/ \E s \in Sessions, id \in UserIds : OpenUpdate(s, id)
  \/ \E s \in Sessions, code \in CloseCodes : CloseUpdate(s, code)
  \/ \E s \in Sessions : CredsUpdate(s)
  \/ LogoutRequest
  \/ \E k \in LogoutKeys : LogoutSettles(k, TRUE)
  \/ \E k \in LogoutKeys : LogoutSettles(k, FALSE)

SpecConn == Init /\ [][NextConn]_vars

\* The connection lifecycle with timers that fire, session folder reads that
\* return and connectToWhatsApp invocations that run on to makeWASocket.
Fairness ==
  /\ WF_vars(\E d \in Delays : TimerFires(d))
  /\ WF_vars(AuthStateRead)
  /\ WF_vars(\E c \in CredsOpts : ConnectEstablish(c))

SpecLive == SpecConn /\ Fairness

\* Ingestion on the first session: the session is set up and opened, then
\* events, downloads, webhook configuration and POSTs interleave.
NextIngest ==
  \/ AuthStateRead
  \/ \E c \in CredsOpts : ConnectEstablish(c)
  \/ \E s \in Sessions, id \in UserIds : OpenUpdate(s, id)
  \/ \E url \in Urls : WebhookSet(url)
  \/ WebhookDelete
  \/ \E s \in Sessions, type \in UpsertTypes, batch \in Batches : Upsert(s, type, batch)
  \/ \E h \in ingest, ok \in BOOLEAN : DownloadSettles(h, ok)
  \/ \E j \in 1..Len(posts), outcome \in PostOutcomes : PostSettles(j, outcome)

\* The process starts with the credentials of an earlier pairing.
InitPaired == Init /\ material = Some(0)

SpecIngest == InitPaired /\ [][NextIngest]_vars

\* Text messages under every kind of key: a phone number jid, a LID with a
\* phone number participant, a LID without participant, a LID with a LID
\* participant, and a group jid with a phone number participant.
AddressedMsgs ==
  { Message(Jid("111", "@s.whatsapp.net"), Null, FALSE, Null, TextBody("hi")),
    Message(Jid("777", "@lid"), Jid("222", "@s.whatsapp.net"), FALSE, Null, TextBody("hi")),
    Message(Jid("777", "@lid"), Null, FALSE, Null, TextBody("hi")),
    Message(Jid("777", "@lid"), Jid("888", "@lid"), FALSE, Null, TextBody("hi")),
    Message(Jid("999", "@g.us"), Jid("222", "@s.whatsapp.net"), FALSE, Null, TextBody("hi")) }

AddressedBatches ==
  UNION {[1..n -> {[msg |-> m, fate |-> f] : m \in AddressedMsgs, f \in {"ok", "dbFail"}}] :
           n \in 1..MaxBatch}

\* Ingestion of text messages from every kind of sender, with the webhook
\* configured or not.
NextResolve ==
  \/ AuthStateRead
  \/ \E c \in CredsOpts : ConnectEstablish(c)
  \/ \E s \in Sessions, id \in UserIds : OpenUpdate(s, id)
  \/ \E url \in Urls : WebhookSet(url)
  \/ WebhookDelete
  \/ \E s \in Sessions, batch \in AddressedBatches : Upsert(s, "notify", batch)
  \/ \E j \in 1..Len(posts), outcome \in PostOutcomes : PostSettles(j, outcome)

SpecResolve == InitPaired /\ [][NextResolve]_vars

\* Bodies with every combination of conversation, extended text, image and
\* caption, an empty conversation included.
PayloadBodies ==
  {Some([conversation |-> c, extendedText |-> e, imageMessage |-> im]) :
     c \in {Null, Some(""), Some("c")}, e \in {Null, Some("e")},
     im \in {Null, Some([caption |-> Null]), Some([caption |-> Some("p")])}}

PayloadBatches ==
  UNION {[1..n -> {[msg |-> Message(Jid("111", "@s.whatsapp.net"), Null, FALSE, Null, b),
                    fate |-> "ok"] : b \in PayloadBodies}] : n \in 1..MaxBatch}

\* Ingestion of every kind of body, the downloads of the images succeeding
\* or failing.
NextPayload ==
  \/ AuthStateRead
  \/ \E c \in CredsOpts : ConnectEstablish(c)
  \/ \E s \in Sessions, id \in UserIds : OpenUpdate(s, id)
  \/ \E s \in Sessions, batch \in PayloadBatches : Upsert(s, "notify", batch)
  \/ \E h \in ingest, ok \in BOOLEAN : DownloadSettles(h, ok)

SpecPayload == InitPaired /\ [][NextPayload]_vars

\* One text message, delivered again and again, in one batch or in several.
Redelivered ==
  Message(Jid("111", "@s.whatsapp.net"), Null, FALSE, Some("Ann"), TextBody("hi"))

RedeliveryBatches ==
  UNION {[1..n -> {[msg |-> Redelivered, fate |-> "ok"]}] : n \in 1..MaxBatch}

NextRedelivery ==
  \/ AuthStateRead
  \/ \E c \in CredsOpts : ConnectEstablish(c)
  \/ \E s \in Sessions, id \in UserIds : OpenUpdate(s, id)
  \/ \E url \in Urls : WebhookSet(url)
  \/ WebhookDelete
  \/ \E s \in Sessions, batch \in RedeliveryBatches : Upsert(s, "notify", batch)
  \/ \E j \in 1..Len(posts), outcome \in PostOutcomes : PostSettles(j, outcome)

SpecRedelivery == InitPaired /\ [][NextRedelivery]_vars

\* The two middlewares in front of GET /status and GET /config, for every
\* stored key, configuration and supplied header of the model.
NextAuth ==
  \/ AuthStateRead
  \/ \E c \in CredsOpts : ConnectEstablish(c)
  \/ \E s \in Sessions, id \in UserIds : OpenUpdate(s, id)
  \/ \E h \in KeyHeaders : Rejected("GET /status", WithKey(h))
  \/ \E h \in AuthorizationHeaders : Rejected("GET /config", WithAuthorization(h))
  \/ \E h \in KeyHeaders : StatusRequest(WithKey(h))
  \/ \E h \in AuthorizationHeaders : ConfigRequest(WithAuthorization(h))

InitAuth ==
  /\ InitCore
  /\ material = Some(0)
  /\ apiKey \in StoredKeys
  /\ config \in Configs

SpecAuth == InitAuth /\ [][NextAuth]_vars

\* The session of a paired account with text messages coming in while the
\* clock advances: the part the specifications of the routes share.
NextSession ==
  \/ AuthStateRead
  \/ \E c \in CredsOpts : ConnectEstablish(c)
  \/ \E s \in Sessions, id \in UserIds : OpenUpdate(s, id)
  \/ \E s \in Sessions, batch \in ApiBatches : Upsert(s, "notify", batch)
  \/ Tick

\* POST /messages/:id/reply with every body and id of the model, on a
\* session that may close.
NextReply ==
  \/ NextSession
  \/ \E s \in Sessions : CloseUpdate(s, ConnectionClosed)
  \/ \E h \in ApiHeaders, id \in Ids, body \in ReplyBodies : ReplyRequest(h, id, body)
  \/ \E h \in replies : ReplySettles(h, TRUE)
  \/ \E h \in replies : ReplySettles(h, FALSE)

SpecReply == InitPaired /\ [][NextReply]_vars

\* PATCH /messages/:id/status and GET /inbox, with text replies.
NextInbox ==
  \/ NextSession
  \/ \E h \in ApiHeaders, id \in Ids : ReplyRequest(h, id, TextReply)
  \/ \E h \in replies : ReplySettles(h, TRUE)
  \/ \E h \in ApiHeaders, id \in Ids, body \in StatusBodies : StatusPatch(h, id, body)
  \/ \E h \in ApiHeaders : \E o \in InboxOrders(messages) : InboxRequest(h, o)

SpecInbox == InitPaired /\ [][NextInbox]_vars

\* Every protected route with good and bad credentials, on the first
\* message.
NextGuard ==
  \/ AuthStateRead
  \/ \E c \in CredsOpts : ConnectEstablish(c)
  \/ \E s \in Sessions, id \in UserIds : OpenUpdate(s, id)
  \/ \E s \in Sessions : Upsert(s, "notify", FirstBatch)
  \/ \E route \in ApiKeyRoutes \cup BasicRoutes, h \in ApiHeaders : Rejected(route, h)
  \/ \E h \in ApiHeaders : StatusRequest(h)
  \/ \E h \in ApiHeaders : ConfigRequest(h)
  \/ \E h \in ApiHeaders : ReplyRequest(h, 1, TextReply)
  \/ \E h \in replies : ReplySettles(h, TRUE)
  \/ \E h \in ApiHeaders : StatusPatch(h, 1, MarkIgnored)
  \/ \E h \in ApiHeaders : \E o \in InboxOrders(messages) : InboxRequest(h, o)

SpecGuard == InitPaired /\ [][NextGuard]_vars

\* API-key provisioning on an empty store, with the routes that read the key.
NextKey ==
  \/ AuthStateRead
  \/ \E c \in CredsOpts : ConnectEstablish(c)
  \/ \E s \in Sessions, id \in UserIds : OpenUpdate(s, id)
  \/ \E random \in RandomKeys : EnsureApiKey(random)
  \/ \E h \in ApiHeaders : Rejected("GET /status", h)
  \/ \E h \in ApiHeaders : StatusRequest(h)
  \/ \E h \in ApiHeaders : ConfigRequest(h)

\* A database on which ensureApiKey has not run yet.
InitKey ==
  /\ InitCore
  /\ material = Some(0)
  /\ apiKey = {}
  /\ config = DefaultConfig

SpecKey == InitKey /\ [][NextKey]_vars

\* The headers of an authenticated client of either kind.
GoodHeaders ==
  {WithKey(Some(GeneratedKey)),
   WithAuthorization(Some([scheme |-> "Basic",
                           payload |-> ToBase64(Credentials(<<"a">>, <<"p">>))]))}

\* GET /status and GET /config while messages come in and replies go out.
NextCount ==
  \/ NextSession
  \/ \E h \in GoodHeaders, id \in Ids : ReplyRequest(h, id, TextReply)
  \/ \E h \in replies : ReplySettles(h, TRUE)
  \/ \E h \in replies : ReplySettles(h, FALSE)
  \/ \E h \in GoodHeaders : StatusRequest(h)
  \/ \E h \in GoodHeaders : ConfigRequest(h)

SpecCount == InitPaired /\ [][NextCount]_vars

\* A text message and an image whose file may fail to be written.
LifecycleBatches ==
  UNION {[1..n -> {[msg |-> Message(Jid("111", "@s.whatsapp.net"), Null, FALSE, Null,
                                    TextBody("hi")), fate |-> "ok"],
                   [msg |-> Message(Jid("222", "@s.whatsapp.net"), Null, FALSE, Null,
                                    ImageBody(Some("cap"))), fate |-> "ok"],
                   [msg |-> Message(Jid("222", "@s.whatsapp.net"), Null, FALSE, Null,
                                    ImageBody(Some("cap"))), fate |-> "fsFail"]}] :
           n \in 1..MaxBatch}

MarkUnread == [message |-> Null, image |-> Null, status |-> Some("unread")]

\* Everything that writes the messages table: ingestion with downloads,
\* replies and status updates, while the clock advances.
NextLifecycle ==
  \/ AuthStateRead
  \/ \E c \in CredsOpts : ConnectEstablish(c)
  \/ \E s \in Sessions, id \in UserIds : OpenUpdate(s, id)
  \/ \E s \in Sessions, batch \in LifecycleBatches : Upsert(s, "notify", batch)
  \/ \E h \in ingest, ok \in BOOLEAN : DownloadSettles(h, ok)
  \/ Tick
  \/ \E h \in GoodHeaders, id \in Ids : ReplyRequest(h, id, TextReply)
  \/ \E h \in replies : ReplySettles(h, TRUE)
  \/ \E h \in GoodHeaders, id \in Ids, body \in {MarkIgnored, MarkUnread} :
       StatusPatch(h, id, body)

SpecLifecycle == InitPaired /\ [][NextLifecycle]_vars

\* A connection that keeps failing: every session is closed for a reason
\* other than a logout before it opens, while pairing may go on.
NextBackoff ==
  \/ \E d \in Delays : TimerFires(d)
  \/ AuthStateRead
  \/ \E c \in CredsOpts : ConnectEstablish(c)
  \/ \E s \in Sessions : QrUpdate(s)
  \/ \E r \in renders, ok \in BOOLEAN : QrRendered(r, ok)
  \/ \E s \in Sessions : CredsUpdate(s)
  \/ \E s \in Sessions : CloseUpdate(s, ConnectionClosed)

SpecBackoff == Init /\ [][NextBackoff]_vars

\* GET /qr over the connection lifecycle.
NextQr ==
  \/ \E d \in Delays : TimerFires(d)
  \/ AuthStateRead
  \/ \E c \in CredsOpts : ConnectEstablish(c)
  \/ \E s \in Sessions : QrUpdate(s)
  \/ \E r \in renders, ok \in BOOLEAN : QrRendered(r, ok)
  \/ \E s \in Sessions, id \in UserIds : OpenUpdate(s, id)
  \/ \E s \in Sessions, code \in CloseCodes : CloseUpdate(s, code)
  \/ \E s \in Sessions : CredsUpdate(s)
  \/ QrRequest

SpecQr == Init /\ [][NextQr]_vars

Next ==
  \/ NextConn \/ NextIngest \/ NextAuth \/ NextReply \/ NextInbox \/ NextGuard
  \/ NextQr \/ NextKey \/ NextCount \/ NextBackoff \/ NextResolve \/ NextPayload
  \/ NextRedelivery \/ NextLifecycle

Spec == Init /\ [][Next]_vars

\* ------------------------------------------------------------ properties

\* A pending sock.logout() settles in this step.
LogoutSettled == \E k \in LogoutKeys : logouts'[k] < logouts[k]
\* A handler calls sock.logout() in this step.
LogoutCalled == \E k \in LogoutKeys : logouts'[k] > logouts[k]

\* C1: in every reachable state the phone (identity) is non-null exactly when
\* the connected flag is true.
C1_IdentityIffConnected == (phone # Null) <=> connected

\* C1 witness: connected with a phone after an earlier session has closed.
C1_Witness ==
  /\ connected /\ phone = Some(<<"4917">>)
  /\ \E s \in Sessions : sessSt[s] = "closed"

\* C2: the pairing payload (qrCode) is non-null only while the status is
\* AwaitingPairing, never while Connected or Disconnected.
C2_QrOnlyWhileAwaitingPairing == qrCode # Null => Status = "AwaitingPairing"

\* C3: at most one session created by connectToWhatsApp is live at a time.
C3_OneLiveSession == Cardinality(Live) <= 1

C5_LogoutRejectedUnlessConnected ==
  [][ (LogoutRequest /\ ~connected) =>
        /\ resp' = [route |-> "logout", code |-> 400, error |-> "Not connected"]
        /\ UNCHANGED <<sock, qrCode, connected, phone, material, timers,
                       logouts, terminated>>
    ]_vars

\* C6: when sock.logout() throws, the answer is 500 'Logout failed' and the
\* handler leaves connected, phone, sock, the session folder and the
\* scheduled reconnections as they are.
C6_LogoutFailureKeepsState ==
  [][ (LogoutSettled /\ resp'.code # 200) =>
        /\ resp' = [route |-> "logout", code |-> 500, error |-> "Logout failed"]
        /\ UNCHANGED <<sock, qrCode, connected, phone, material, timers,
                       terminated, sessSt>>
    ]_vars

\* C6 witness: a logout has failed on a connected session, which is still
\* connected and still the stored socket.
C6_Witness ==
  /\ resp.code = 500 /\ issuedConnected
  /\ connected
  /\ \E s \in sock : terminated[s] = 1 /\ sessSt[s] = "open"

\* ---- ingestion

IncomingRows == {i \in 1..Len(messages) : messages[i].direction = "incoming"}
PostId(j) == posts[j].data.message.id

\* C7: each inbound event produces at most one row of messages and at most
\* one webhook POST, and every POST is for a row that was persisted.
C7_AtMostOneRowAndPostPerEvent ==
  /\ Len(rowEvent) = Len(messages)
  /\ \A i \in IncomingRows : rowEvent[i] \in 1..delivered
  /\ \A i, j \in IncomingRows : rowEvent[i] = rowEvent[j] => i = j
  /\ \A i, j \in 1..Len(posts) : PostId(i) = PostId(j) => i = j
  /\ \A j \in 1..Len(posts) : \E i \in IncomingRows : messages[i].id = PostId(j)

\* C7 witness: two events delivered, one of them stored and notified, the
\* other one not stored.
C7_Witness ==
  delivered = 2 /\ Len(messages) = 1 /\ Len(posts) = 1 /\ ingest = {}

\* The row an event's failed download must leave, with the given text.
FailOpenRow(h, text) ==
  LET i == Len(messages) + 1 IN
  /\ Len(messages') >= i
  /\ rowEvent'[i] = h.cur.ev
  /\ messages'[i].direction = "incoming"
  /\ messages'[i].media_type = "text"
  /\ messages'[i].media_url = Null
  /\ messages'[i].message = text

DownloadFails(h) ==
  h.at = "download" /\ dl[h.cur.ev] = "pending" /\ dl'[h.cur.ev] = "failed"

ImageOf(h) == CHOOSE im \in (CHOOSE b \in h.cur.msg.message : TRUE).imageMessage : TRUE
BodyOf(h) == CHOOSE b \in h.cur.msg.message : TRUE

\* C8 as claimed: every image event whose download fails leaves a row with
\* media_type 'text', media_url null and a non-empty text equal to the caption
\* (stated here for the events whose insert does not fail for its own reasons).
C8_FailOpenCaption ==
  [][ \A h \in ingest : (DownloadFails(h) /\ h.cur.fate # "dbFail") =>
        /\ ImageOf(h).caption # Null
        /\ FailOpenRow(h, CHOOSE c \in ImageOf(h).caption : TRUE)
        /\ messages'[Len(messages) + 1].message # ""
    ]_vars

\* C8 amended: every image event whose download fails is not downloaded
\* again and, unless the insert itself fails, leaves a row with media_type
\* 'text', media_url null and as text the first non-empty of plain text,
\* extended text and caption, or '' when there is none; the rows before it
\* stay and the handler is not left suspended on the event.
C8_FailOpen ==
  [][ /\ \A h \in ingest : DownloadFails(h) =>
           /\ \A g \in ingest' : g.cur.ev # h.cur.ev
           /\ SubSeq(messages', 1, Len(messages)) = messages
           /\ h.cur.fate # "dbFail" =>
                FailOpenRow(h,
                  IF Truthy(BodyOf(h).conversation)
                  THEN CHOOSE c \in BodyOf(h).conversation : TRUE
                  ELSE IF Truthy(BodyOf(h).extendedText)
                  THEN CHOOSE c \in BodyOf(h).extendedText : TRUE
                  ELSE IF Truthy(ImageOf(h).caption)
                  THEN CHOOSE c \in ImageOf(h).caption : TRUE
                  ELSE "")
      /\ \A e \in Events : dl[e] = "failed" => dl'[e] = "failed"
    ]_vars

\* C8 witness: the download of a captioned image has failed and its row holds
\* the caption as a text message.
C8_Witness ==
  \E i \in IncomingRows :
    /\ dl[rowEvent[i]] = "failed"
    /\ messages[i].media_type = "text" /\ messages[i].media_url = Null
    /\ messages[i].message = "cap"

\* The POSTs a step issues for the row it inserts at index i.
NewPostsFor(i) ==
  {j \in (Len(posts) + 1)..Len(posts') : posts'[j].data.message.id = messages'[i].id}

\* C9: every step that persists an incoming row issues exactly one POST for
\* it, carrying the row's id, phone, text, media type and media reference,
\* when an active 'message.received' webhook exists, and none otherwise.
C9_OnePostPerPersistedRow ==
  [][ \A i \in (Len(messages) + 1)..Len(messages') :
        messages'[i].direction = "incoming" =>
          IF GetWebhook(webhooks, "message.received") # Null
          THEN /\ Cardinality(NewPostsFor(i)) = 1
               /\ \A j \in NewPostsFor(i) :
                    /\ posts'[j].url = (CHOOSE w \in GetWebhook(webhooks, "message.received") : TRUE).url
                    /\ posts'[j].data =
                         [event |-> "message.received",
                          message |-> [id |-> messages'[i].id,
                                       from |-> messages'[i].phone,
                                       text |-> messages'[i].message,
                                       mediaType |-> messages'[i].media_type,
                                       mediaUrl |-> messages'[i].media_url]]
          ELSE NewPostsFor(i) = {}
    ]_vars

\* C10: the handler never waits for a webhook POST: an invocation is only
\* ever suspended at the download of an event that is not persisted yet.
C10_IngestionNeverAwaitsPost ==
  \A h \in ingest :
    /\ h.at = "download"
    /\ \A i \in 1..Len(rowEvent) : rowEvent[i] # h.cur.ev

\* C10 witness: a later event is persisted while the POST of an earlier one
\* is still pending.
C10_Witness ==
  \E j \in 1..Len(posts) : \E i \in IncomingRows :
    /\ posts[j].result = "pending"
    /\ messages[i].id > PostId(j)
    /\ rowEvent[i] > 1

\* C11: callWebhook never raises and never retries.  A step in which the
\* fetch of a POST settles (ok, non-2xx status, or timeout / connection /
\* transport error) resolves the promise callWebhook returned, issues no
\* further POST, and leaves the messages table, the files and every other
\* POST as they were; no POST is ever changed or withdrawn once issued, and
\* no promise of callWebhook is ever rejected.
C11_DispatchAbsorbsFailures ==
  [][ /\ Len(posts') >= Len(posts)
      /\ \A j \in 1..Len(posts) :
            /\ posts'[j].url = posts[j].url /\ posts'[j].data = posts[j].data
            /\ posts'[j].promise # "rejected"
            /\ posts[j].result # "pending" => posts'[j] = posts[j]
            /\ (posts[j].result = "pending" /\ posts'[j].result # "pending") =>
                  /\ posts'[j].result \in PostOutcomes
                  /\ posts'[j].promise = "resolved"
                  /\ Len(posts') = Len(posts)
                  /\ \A k \in 1..Len(posts) : k # j => posts'[k] = posts[k]
                  /\ UNCHANGED <<messages, files, webhooks, ingest>>
    ]_vars

\* C11 witness: one POST failed with a transport error and another with a
\* non-2xx status; both promises resolved, the rows they were sent for are
\* still in the table, and each row has exactly one POST.
C11_Witness ==
  /\ Len(posts) = 2
  /\ posts[1].result = "error" /\ posts[1].promise = "resolved"
  /\ posts[2].result = "status" /\ posts[2].promise = "resolved"
  /\ PostId(1) # PostId(2)
  /\ \A j \in 1..2 : \E i \in IncomingRows : messages[i].id = PostId(j)


\* ---- authentication

\* The X-API-Key header is missing (or empty).
KeyMissing(r) == Falsy(r.headers.key)

\* C12: a request to a shared-secret route is admitted iff the X-API-Key
\* header is present, a key is stored and the two are equal; otherwise it is
\* rejected, a missing header with 401 'API key required', else no stored
\* key with 500 'API key not configured', else 401 'Invalid API key'.
C12_ApiKeyAdmission ==
  req.route = "GET /status" =>
    /\ req.ran <=> (~KeyMissing(req) /\ apiKey # Null /\ req.headers.key = apiKey)
    /\ req.ran => resp.code = 200
    /\ ~req.ran =>
         resp = IF KeyMissing(req)
                THEN [route |-> "GET /status", code |-> 401, error |-> "API key required"]
                ELSE IF apiKey = Null
                THEN [route |-> "GET /status", code |-> 500, error |-> "API key not configured"]
                ELSE [route |-> "GET /status", code |-> 401, error |-> "Invalid API key"]

\* The credentials of the Authorization header are those of the configuration.
BasicMatches(r) ==
  /\ r.headers.authorization # Null
  /\ LET h == CHOOSE x \in r.headers.authorization : TRUE IN
       /\ h.scheme = "Basic"
       /\ h.payload = ToBase64(Credentials(config.DASHBOARD_USER, config.DASHBOARD_PASSWORD))

\* C13: a request to a basic-credential route is admitted iff its header
\* carries the configured user and password, for every configuration; a
\* missing or malformed header or any mismatch is rejected with 401 and a
\* WWW-Authenticate challenge.
C13_BasicAdmission ==
  req.route = "GET /config" =>
    /\ req.ran <=> BasicMatches(req)
    /\ req.ran => resp.code = 200
    /\ ~req.ran => resp.code = 401 /\ out = Some(Challenge)

\* The credentials of a request are those its route asks for.
Authentic(r) ==
  IF r.route \in ApiKeyRoutes THEN apiKey # Null /\ r.headers.key = apiKey
  ELSE BasicMatches(r)

\* C14: on every shared-secret and every basic-auth route a request that
\* fails authentication is answered 401, its handler does not run, and
\* ConnectionState, the messages, the webhook subscription, the scheduled
\* reconnections, the sends and the logout calls are left as they were.
C14_UnauthorizedNeverReachHandlers ==
  [][ (req'.route \in ApiKeyRoutes \cup BasicRoutes /\ ~Authentic(req')) =>
        /\ resp'.code = 401
        /\ ~req'.ran
        /\ UNCHANGED <<connState, ingestVars, apiState>>
    ]_vars

\* ---- POST /messages/:id/reply

ReplyRoute == "POST /messages/:id/reply"

\* The body of a request holds neither text nor image.
NothingToSend(r) == ~Truthy(r.body.message) /\ Falsy(r.body.image)

\* This step answers a reply request before anything is sent.
AnsweredEarly == req'.route = ReplyRoute /\ req'.ran /\ replies' = replies

\* This step answers a reply request whose send has settled.
AnsweredAfterSend == req'.route = ReplyRoute /\ replies' # replies

\* The rows stored with direction 'outgoing'.
OutgoingRows(rows) == {i \in 1..Len(rows) : rows[i].direction = "outgoing"}

C16_SuccessfulReply ==
  [][ /\ Len(sent') > Len(sent) =>
           /\ connected /\ sock # Null
           /\ \E h \in replies' \ replies :
                /\ replies' = replies \cup {h}
                /\ GetMessageById(messages, h.id) # Null
                /\ \A m \in GetMessageById(messages, h.id) :
                     /\ Len(sent') = Len(sent) + 1
                     /\ SubSeq(sent', 1, Len(sent)) = sent
                     /\ sent'[Len(sent')].jid = m.phone
                     /\ sent'[Len(sent')].sock = sock
                     /\ h.send = Len(sent')
           /\ UNCHANGED messages
      /\ (AnsweredAfterSend /\ resp'.code = 200) =>
           LET n == Len(messages)
               image == req'.body.image
           IN /\ sent' = sent
              /\ \E h \in replies : replies' = replies \ {h} /\ h.id = req'.id
              /\ Len(messages') = n + 1
              /\ \E i \in 1..n :
                   /\ messages[i].id = req'.id
                   /\ messages'[i] = [messages[i] EXCEPT !.reply_status = "replied"]
                   /\ \A j \in (1..n) \ {i} : messages'[j] = messages[j]
                   /\ messages'[n + 1].phone = messages[i].phone
                   /\ \E k \in 1..Len(sent) : sent[k].jid = messages[i].phone
              /\ messages'[n + 1].direction = "outgoing"
              /\ messages'[n + 1].reply_status = "sent"
              /\ messages'[n + 1].media_type = "image" <=> image # Null
              /\ messages'[n + 1].media_type \in {"image", "text"}
              /\ messages'[n + 1].media_url =
                   IF image = Null THEN Null
                   ELSE IF \E x \in image : IsUrl(x) THEN image
                   ELSE Some(<<"base64">>)
    ]_vars

\* A reply with a base64 image was sent and stored, the original marked.
C16_Witness ==
  /\ req.route = ReplyRoute /\ resp.code = 200
  /\ Len(sent) = 1
  /\ \E i, j \in 1..Len(messages) :
       /\ messages[i].id = req.id /\ messages[i].reply_status = "replied"
       /\ messages[j].direction = "outgoing" /\ messages[j].media_type = "image"
       /\ messages[j].media_url = Some(<<"base64">>)
       /\ messages[j].phone = messages[i].phone

C18_QrAnswers ==
  [][ req'.route = "GET /qr" =>
        /\ connected =>
             /\ resp'.code = 400 /\ resp'.error = "Already connected to WhatsApp"
             /\ out' = Null
        /\ (~connected /\ qrCode # Null) =>
             /\ resp'.code = 200
             /\ \A q \in qrCode :
                  out' = Some([qr |-> q, message |-> "Scan this QR code with WhatsApp"])
        /\ (~connected /\ qrCode = Null) =>
             /\ resp'.code = 400
             /\ resp'.error = "QR code not available. Please restart the server."
             /\ out' = Null
        /\ UNCHANGED <<connState, ingestVars, apiState>>
    ]_vars

\* GET /qr was answered 400 while the connection was open and a QR code
\* was stored.
C18_Witness ==
  /\ req.route = "GET /qr"
  /\ connected /\ qrCode # Null
  /\ resp.code = 400 /\ resp.error = "Already connected to WhatsApp"

\* ---- PATCH /messages/:id/status and GET /inbox

StatusRoute == "PATCH /messages/:id/status"

\* C19: PATCH /messages/:id/status of an authenticated request: without a
\* status 400 'Status is required'; with a status outside unread, replied,
\* ignored, sent 400 'Invalid status. Must be one of: ...'; with a valid
\* status for an unknown id 404 'Message not found'; in these three cases no
\* row changes. With a valid status for a stored id exactly that row takes
\* the status, every other row is unchanged, and the answer is 200.
C19_StatusPatch ==
  [][ (req'.route = StatusRoute /\ req'.ran) =>
        LET status == req'.body.status
            id == req'.id
        IN
        IF status = Null
        THEN /\ resp'.code = 400 /\ resp'.error = "Status is required"
             /\ UNCHANGED messages
        ELSE IF \E s \in status : s \notin ValidStatuses
        THEN /\ resp'.code = 400
             /\ resp'.error = "Invalid status. Must be one of: unread, replied, ignored, sent"
             /\ UNCHANGED messages
        ELSE IF GetMessageById(messages, id) = Null
        THEN /\ resp'.code = 404 /\ resp'.error = "Message not found"
             /\ UNCHANGED messages
        ELSE /\ resp'.code = 200
             /\ Len(messages') = Len(messages)
             /\ Cardinality({i \in 1..Len(messages) : messages[i].id = id}) = 1
             /\ \A i \in 1..Len(messages) :
                  messages'[i] = IF messages[i].id = id
                                 THEN [messages[i] EXCEPT !.reply_status =
                                         CHOOSE s \in status : TRUE]
                                 ELSE messages[i]
    ]_vars

\* One of two stored rows was marked ignored, the other is still unread.
C19_Witness ==
  /\ req.route = StatusRoute /\ resp.code = 200
  /\ \E i, j \in 1..Len(messages) :
       /\ messages[i].id = req.id /\ messages[i].reply_status = "ignored"
       /\ j # i /\ messages[j].reply_status = "unread"

\* The selected rows, the one stored last first.
NewestFirst(rows) ==
  LET sel == InboxSelection(rows)
  IN [k \in 1..Cardinality(sel) |->
        InboxRow(rows[CHOOSE i \in sel : Cardinality({j \in sel : j > i}) = k - 1])]

\* C20: GET /inbox returns exactly the rows with direction incoming and
\* status unread, the newest first; a message that was replied to or marked
\* ignored is absent and no outgoing message is present.
C20_InboxNewestFirst ==
  (req.route = "GET /inbox" /\ req.ran) =>
    /\ resp.code = 200
    /\ out = Some(NewestFirst(messages))

\* ---- webhook subscription and API key

\* The rows of the webhooks table that getWebhook may select for an event.
ActiveWebhooks(table, event) ==
  {i \in 1..Len(table) : table[i].event = event /\ table[i].active = 1}

\* C21: after any sequence of set and delete operations the webhooks table
\* holds at most one active row for 'message.received'; after a set
\* getWebhook returns the URL just set, after a delete it returns none, and
\* nothing else changes the table.
C21_OneWebhookPerEvent ==
  [][ /\ Cardinality(ActiveWebhooks(webhooks', "message.received")) <= 1
      /\ \A url \in Urls : WebhookSet(url) =>
           /\ GetWebhook(webhooks', "message.received") # Null
           /\ \A w \in GetWebhook(webhooks', "message.received") : w.url = url
      /\ WebhookDelete => GetWebhook(webhooks', "message.received") = Null
      /\ webhooks' # webhooks => (WebhookDelete \/ \E url \in Urls : WebhookSet(url))
    ]_vars

\* A POST went to the first URL and the subscription now holds the second.
C21_Witness ==
  /\ Len(posts) >= 1 /\ posts[1].url = "https://hook.example/a"
  /\ Len(webhooks) = 1
  /\ \E w \in GetWebhook(webhooks, "message.received") : w.url = "https://hook.example/b"

\* C22: the first ensureApiKey on an empty store stores one key and returns
\* it; every later call returns the stored key and stores nothing; the
\* store never holds more than one key, no step changes a stored key, and
\* getApiKey returns it in every later state.
C22_KeyProvisionedOnce ==
  [][ /\ resp'.route = "ensureApiKey" =>
           /\ apiKey = {} => apiKey' = req'.headers.key /\ out' = req'.headers.key
           /\ apiKey # {} => apiKey' = apiKey /\ out' = apiKey
           /\ GetApiKey(apiKey') = out'
      /\ apiKey # {} => (apiKey' = apiKey /\ GetApiKey(apiKey') = GetApiKey(apiKey))
      /\ Cardinality(apiKey') <= 1
      /\ (resp'.route = "GET /config" /\ req'.ran) =>
           \A d \in out' : d.apiKey = GetApiKey(apiKey)
    ]_vars

\* A call that would have generated another key returned the stored one.
C22_Witness ==
  /\ resp.route = "ensureApiKey"
  /\ req.headers.key = Some(<<"k", "2">>)
  /\ out = Some(GeneratedKey)
  /\ GetApiKey(apiKey) = Some(GeneratedKey)

\* ---- message count and reply-only

\* The rows that were stored for an inbound event.
IngestedRows == {i \in 1..Len(rowEvent) : rowEvent[i] # 0}

\* C23: the messageCount of GET /status and GET /config is the number of
\* rows stored for inbound events, after every sequence of ingestions and
\* replies; a step that stores an outgoing row leaves the count as it was.
C23_CountIsIncoming ==
  [][ /\ (req'.route \in {"GET /status", "GET /config"} /\ req'.ran) =>
           /\ out' # Null
           /\ \A d \in out' : d.messageCount = Cardinality(IngestedRows)
      /\ (\E i \in (Len(messages) + 1)..Len(messages') :
             messages'[i].direction = "outgoing") =>
           /\ GetMessageCount(messages') = GetMessageCount(messages)
           /\ Len(messages') > GetMessageCount(messages')
    ]_vars

\* GET /status reported two messages with three rows stored, one outgoing.
C23_Witness ==
  /\ req.route = "GET /status" /\ req.ran
  /\ Len(messages) = 3
  /\ \E i \in 1..3 : messages[i].direction = "outgoing"
  /\ \E d \in out : d.messageCount = 2

\* C24: reply-only: every sock.sendMessage goes to the phone of a row stored
\* for an inbound event, and every outgoing row has the phone of an
\* incoming row stored before it.
C24_ReplyOnly ==
  /\ \A k \in 1..Len(sent) :
       \E i \in IngestedRows :
         messages[i].direction = "incoming" /\ messages[i].phone = sent[k].jid
  /\ \A j \in OutgoingRows(messages) :
       \E i \in 1..(j - 1) :
         /\ messages[i].direction = "incoming" /\ messages[i].phone = messages[j].phone
         /\ \E k \in 1..Len(sent) : sent[k].jid = messages[j].phone

\* Two senders wrote; the reply went to the second and was stored for it.
C24_Witness ==
  /\ Len(messages) = 3 /\ Len(sent) = 1
  /\ messages[1].phone # messages[2].phone
  /\ messages[3].direction = "outgoing"
  /\ messages[3].phone = messages[2].phone
  /\ sent[1].jid = messages[2].phone

\* ---- reconnection

\* Session s is closed in this step.
Closes(s) == sessSt[s] # "closed" /\ sessSt'[s] = "closed"

\* C25: reconnection backs off exponentially: in a run of consecutive
\* transient closes, the reconnection scheduled at a close that follows an
\* earlier one comes after a longer delay than that of the first close.
C25_ExponentialBackoff ==
  [][ \A s \in Sessions :
        (Closes(s) /\ \E t \in Sessions : sessSt[t] = "closed") =>
          /\ timers'[ReconnectDelay] = timers[ReconnectDelay]
          /\ \E d \in Delays : d > ReconnectDelay /\ timers'[d] = timers[d] + 1
    ]_vars

\* Session s opens in this step.
Opens(s) == sessSt[s] = "live" /\ sessSt'[s] = "open"

\* C26: the step in which a session opens leaves connected true, phone the
\* part before the colon of the user id of the session that opened, and
\* qrCode null; no step leaves a session open otherwise, so no state in
\* between is there for a handler to see.
C26_OpenSetsConnected ==
  [][ /\ \A s \in Sessions, id \in UserIds : OpenUpdate(s, id) =>
           /\ Opens(s)
           /\ connected' /\ phone' = Some(<<id[1]>>) /\ id[2] = ":"
           /\ qrCode' = Null
      /\ \A s \in Sessions : Opens(s) =>
           connected' /\ phone' # Null /\ qrCode' = Null
    ]_vars

\* The session paired through the QR code of session 1 has opened as
\* session 2.
C26_Witness ==
  /\ sessSt[2] = "open" /\ sessCreds[2] = Some(1)
  /\ connected /\ phone = Some(<<"4917">>) /\ qrCode = Null

\* Status in the state a step leaves.
StatusAfter ==
  IF connected' THEN "Connected"
  ELSE IF qrCode' # Null THEN "AwaitingPairing"
  ELSE "Disconnected"

\* The reconnection a close with this reason schedules, and what it does
\* to qrCode.
CloseEffect(code) ==
  /\ loading' = loading /\ loaded' = loaded
  /\ PendingTimers' = PendingTimers + 1
  /\ IF code # LoggedOut
     THEN /\ timers' = [timers EXCEPT ![5000] = @ + 1]
          /\ qrCode' = qrCode
     ELSE /\ timers' = [timers EXCEPT ![2000] = @ + 1]
          /\ qrCode' = Null

\* C27 as stated: every session close leaves the status Disconnected and
\* phone null and schedules exactly one reconnection, after 5 s with qrCode
\* untouched when the reason is not loggedOut, after 2 s with qrCode
\* cleared when it is.
C27_CloseLeavesDisconnected ==
  [][ \A s \in Sessions, code \in CloseCodes : CloseUpdate(s, code) =>
        /\ StatusAfter = "Disconnected"
        /\ phone' = Null
        /\ CloseEffect(code)
    ]_vars

\* C27 amended: every session close leaves connected false and phone null
\* and schedules exactly one reconnection, after 5 s with qrCode untouched
\* when the reason is not loggedOut, after 2 s with qrCode cleared when it
\* is; no connection is started before the timer fires.  The status is
\* Disconnected after a loggedOut close and after a close with no QR code
\* stored, and AwaitingPairing after any other close with a QR code stored.
C27_CloseSchedulesOneReconnect ==
  [][ \A s \in Sessions, code \in CloseCodes : CloseUpdate(s, code) =>
        /\ Closes(s)
        /\ ~connected' /\ phone' = Null
        /\ CloseEffect(code)
        /\ StatusAfter = IF code # LoggedOut /\ qrCode # Null
                         THEN "AwaitingPairing" ELSE "Disconnected"
    ]_vars

\* A session that showed a QR code was closed for a reason other than a
\* logout: the QR code is still stored and one 5 s reconnection is pending.
C27_Witness ==
  /\ \E s \in Sessions : sessSt[s] = "closed"
  /\ ~connected /\ phone = Null
  /\ qrCode # Null
  /\ timers[ReconnectDelay] = 1 /\ PendingTimers = 1

\* connectToWhatsApp resumes after its read and creates a session in this
\* step.
Establishes(s) == sessSt[s] = "none" /\ sessSt'[s] # "none"

\* C28: every connectToWhatsApp reads the session folder before it creates
\* its session and stores that session as the socket; so a session created
\* while the folder is purged by a logout is made without credentials,
\* never with those read before the purge.
C28_ReconnectReloadsCredentials ==
  [][ \A s \in Sessions : Establishes(s) =>
        /\ sock' = Some(s)
        /\ loaded[sessCreds'[s]] > 0
        /\ loaded' = [loaded EXCEPT ![sessCreds'[s]] = @ - 1]
        /\ material = Null => sessCreds'[s] = Null
    ]_vars

\* ---- ignored events and identity resolution

\* An event the handler is to ignore: no message body, authored by this
\* account, or a body with neither text nor image.
Ignorable(msg) ==
  \/ msg.message = Null
  \/ msg.key.fromMe
  \/ \E b \in msg.message :
       /\ b.imageMessage = Null
       /\ b.conversation \in {Null, Some("")}
       /\ b.extendedText \in {Null, Some("")}

\* The rows a step adds to messages.
NewRows == (Len(messages) + 1)..Len(messages')

\* Nothing is stored, downloaded or suspended for event e in this step.
EventUntouched(e) ==
  /\ \A j \in NewRows : rowEvent'[j] # e
  /\ dl'[e] = "none"
  /\ \A h \in ingest' : h.cur.ev # e

\* C29: an event of an upsert that is not of type notify, an event without
\* a message body, an event authored by this account and an event whose
\* body has neither text nor image leave no row, no file, no webhook POST,
\* no download and no change of the connection state; a batch of such
\* events changes nothing.
C29_IgnoredEvents ==
  [][ /\ \A s \in Sessions, type \in UpsertTypes, batch \in Batches :
           Upsert(s, type, batch) =>
             /\ UNCHANGED <<connState, webhooks, files>>
             /\ \A i \in 1..Len(batch) :
                  (type # "notify" \/ Ignorable(batch[i].msg)) =>
                    EventUntouched(delivered + i)
             /\ (\A i \in 1..Len(batch) : type # "notify" \/ Ignorable(batch[i].msg)) =>
                  UNCHANGED <<messages, rowEvent, posts, ingest, dl>>
      /\ \A h \in ingest : \A k \in 1..Len(h.rest) :
           Ignorable(h.rest[k].msg) => EventUntouched(h.rest[k].ev)
      /\ \A j \in (Len(posts) + 1)..Len(posts') :
           \E i \in NewRows : posts'[j].data.message.id = messages'[i].id
      /\ files' \ files \subseteq {Filename(messages'[i].id) : i \in NewRows}
    ]_vars

\* After an image message and an echo of this account's own message in one
\* batch, with a webhook configured, only the image message has a row, a
\* file and a POST.
C29_Witness ==
  /\ delivered = 2 /\ ingest = {}
  /\ Len(messages) = 1 /\ rowEvent[1] = 1 /\ dl = <<"ok", "none">>
  /\ Cardinality(files) = 1 /\ Len(posts) = 1

\* The identity the claim prescribes for a key: the participant when the
\* sender is a LID and the participant is a phone number jid, the sender
\* otherwise.
IsAlias(jid) == jid # Null /\ \E j \in jid : j[Len(j)] = "@lid"
IsCanonical(jid) == jid # Null /\ \E j \in jid : j[Len(j)] = "@s.whatsapp.net"
SenderIdentity(key) ==
  IF IsAlias(key.remoteJid) /\ IsCanonical(key.participant)
  THEN key.participant ELSE key.remoteJid

\* C30: the row stored for an event carries the participant exactly when the
\* sender is a LID and the participant is present and a phone number jid, and
\* the sender as given otherwise; the webhook POST of the row carries the
\* same identity.
C30_IdentityResolution ==
  [][ \A s \in Sessions, batch \in AddressedBatches :
        Upsert(s, "notify", batch) =>
          /\ \A j \in NewRows : \E i \in 1..Len(batch) :
               /\ rowEvent'[j] = delivered + i
               /\ messages'[j].phone = SenderIdentity(batch[i].msg.key)
               /\ (messages'[j].phone = batch[i].msg.key.participant)
                    <=> (IsAlias(batch[i].msg.key.remoteJid)
                           /\ IsCanonical(batch[i].msg.key.participant))
          /\ \A i \in 1..Len(batch) : batch[i].fate = "ok" =>
               \E j \in NewRows : rowEvent'[j] = delivered + i
          /\ \A k \in (Len(posts) + 1)..Len(posts') : \E j \in NewRows :
               /\ posts'[k].data.message.id = messages'[j].id
               /\ posts'[k].data.message.from = messages'[j].phone
          /\ GetWebhook(webhooks, "message.received") # Null =>
               Len(posts') - Len(posts) = Cardinality(NewRows)
    ]_vars

\* A LID sender with a phone number participant and a group sender with one
\* have been stored and posted: the first under the participant, the second
\* under the group jid.
C30_Witness ==
  /\ Len(messages) = 2 /\ Len(posts) = 2
  /\ messages[1].phone = Jid("222", "@s.whatsapp.net")
  /\ messages[2].phone = Jid("999", "@g.us")
  /\ posts[1].data.message.from = Jid("222", "@s.whatsapp.net")
  /\ posts[2].data.message.from = Jid("999", "@g.us")

\* ---- text extraction

\* A payload field is present when it holds a non-empty string.
Present(field) == field # Null /\ field # Some("")
ValueOf(field) == CHOOSE v \in field : TRUE
CaptionOf(body) ==
  IF body.imageMessage = Null THEN Null ELSE ValueOf(body.imageMessage).caption

\* The text the precedence rule prescribes for a body.
Precedence(body) ==
  IF Present(body.conversation) THEN ValueOf(body.conversation)
  ELSE IF Present(body.extendedText) THEN ValueOf(body.extendedText)
  ELSE IF Present(CaptionOf(body)) THEN ValueOf(CaptionOf(body))
  ELSE ""

\* The events a step can store: those of the batch handed over, or the
\* current and remaining events of a suspended invocation.
BatchItems(batch) ==
  {[ev |-> delivered + i, msg |-> batch[i].msg] : i \in 1..Len(batch)}
HandlerItems(h) ==
  {[ev |-> h.cur.ev, msg |-> h.cur.msg]}
    \cup {[ev |-> h.rest[k].ev, msg |-> h.rest[k].msg] : k \in 1..Len(h.rest)}

RowsFollowPrecedence(items) ==
  \A j \in NewRows : \E it \in items :
    /\ it.ev = rowEvent'[j]
    /\ messages'[j].message = Precedence(ValueOf(it.msg.message))

\* C31: the text of every stored row is the conversation if present, else
\* the extended text, else the image caption, else the empty string, for
\* every combination of the payload fields and whether the row is stored at
\* once or after a download.
C31_TextPrecedence ==
  [][ /\ \A s \in Sessions, batch \in PayloadBatches :
           Upsert(s, "notify", batch) => RowsFollowPrecedence(BatchItems(batch))
      /\ \A h \in ingest, ok \in BOOLEAN :
           DownloadSettles(h, ok) => RowsFollowPrecedence(HandlerItems(h))
    ]_vars

\* One row stored with the caption of its image and one with the empty
\* string of an image without any text.
C31_Witness ==
  /\ Len(messages) = 2
  /\ messages[1].message = "p" /\ messages[1].media_type = "image"
  /\ messages[2].message = ""

\* ---- the order of the writes of an image event

\* The rows and POSTs a step adds for event e.
NewRowsOf(e) == {j \in NewRows : rowEvent'[j] = e}
NewPosts == (Len(posts) + 1)..Len(posts')
NewPostsOfRow(j) == {k \in NewPosts : posts'[k].data.message.id = messages'[j].id}

\* C32: when the download of an image event has succeeded, the row is
\* inserted as an image first, the file <id>.jpg is written next, the row's
\* media_url is set to that name after it, and the webhook is called last,
\* with that name: a failed insert leaves nothing, a failed file write
\* leaves the row alone, and a POST is issued only for a row whose file is
\* written and whose media_url is set.
C32_ImageWriteOrder ==
  [][ \A h \in ingest : DownloadSettles(h, TRUE) =>
        LET e == h.cur.ev
            name(j) == Filename(messages'[j].id)
        IN /\ h.cur.fate = "dbFail" =>
                /\ NewRowsOf(e) = {}
                /\ \A k \in NewPosts : \E j \in NewRows : k \in NewPostsOfRow(j)
           /\ h.cur.fate # "dbFail" =>
                /\ Cardinality(NewRowsOf(e)) = 1
                /\ \A j \in NewRowsOf(e) :
                     /\ messages'[j].id = j
                     /\ messages'[j].media_type = "image"
                     /\ name(j) \notin files
                     /\ h.cur.fate = "fsFail" =>
                          /\ name(j) \notin files'
                          /\ messages'[j].media_url = Null
                          /\ NewPostsOfRow(j) = {}
                     /\ h.cur.fate = "ok" =>
                          /\ name(j) \in files'
                          /\ messages'[j].media_url = Some(name(j))
                          /\ GetWebhook(webhooks, "message.received") # Null =>
                               Cardinality(NewPostsOfRow(j)) = 1
                     /\ \A k \in NewPostsOfRow(j) :
                          /\ name(j) \in files'
                          /\ messages'[j].media_url = Some(name(j))
                          /\ posts'[k].data.message.mediaUrl = Some(name(j))
                          /\ posts'[k].data.message.mediaType = "image"
    ]_vars

\* An image has been stored after a text message: row 2 carries the name
\* 2.jpg, the file is written and the POST carries the name.
C32_Witness ==
  /\ Len(messages) = 2 /\ Len(posts) = 1
  /\ messages[2].media_type = "image"
  /\ messages[2].media_url = Some(Filename(2))
  /\ Filename(2) \in files
  /\ posts[1].data.message.id = 2
  /\ posts[1].data.message.mediaUrl = Some(Filename(2))

\* ---- redelivery

\* C33: an event delivered n times leaves n rows with n different ids, and
\* each delivery made while a webhook is active issues its own POST.
C33_NoDeduplication ==
  [][ /\ Len(messages') = delivered'
      /\ \A i, j \in 1..Len(messages') : i # j => messages'[i].id # messages'[j].id
      /\ \A s \in Sessions, batch \in RedeliveryBatches :
           Upsert(s, "notify", batch) =>
             /\ Cardinality(NewRows) = Len(batch)
             /\ GetWebhook(webhooks, "message.received") # Null =>
                  /\ Cardinality(NewPosts) = Len(batch)
                  /\ \A j \in NewRows : Cardinality(NewPostsOfRow(j)) = 1
    ]_vars

\* The message has been delivered twice in two batches with a webhook
\* active: two rows of the same content and two POSTs.
C33_Witness ==
  /\ delivered = 2 /\ Len(messages) = 2 /\ Len(posts) = 2
  /\ messages[1].id # messages[2].id
  /\ messages[1].phone = messages[2].phone
  /\ messages[1].message = messages[2].message
  /\ posts[1].result # "pending" /\ posts[2].result = "pending"

\* ---- the life of a row

SameButStatus(a, b) == [a EXCEPT !.reply_status = b.reply_status] = b

\* No row is deleted and reply_status is the only column of a row that a
\* later step changes.
RowsKept ==
  /\ Len(messages') >= Len(messages)
  /\ \A j \in 1..Len(messages) : SameButStatus(messages[j], messages'[j])

NewIncoming == {j \in NewRows : messages'[j].direction = "incoming"}

\* C34 as stated: no row is deleted, reply_status is the only column that
\* changes, and media_url in particular stays what insertMessage was given,
\* which for an incoming row is null.
C34_OnlyStatusChanges ==
  [][ /\ RowsKept
      /\ \A j \in NewIncoming : messages'[j].media_url = Null
    ]_vars

\* C34: no row is deleted and, once the handler that inserted a row has run
\* on, reply_status is the only column that changes; the one other write is
\* the handler's own update of media_url to <id>.jpg right after the insert
\* of a downloaded image, when the file is written.
C34_OnlyStatusChangesAfterIngestion ==
  [][ /\ RowsKept
      /\ \A j \in NewIncoming :
           \/ messages'[j].media_url = Null
           \/ /\ messages'[j].media_url = Some(Filename(messages'[j].id))
              /\ messages'[j].media_type = "image"
              /\ Filename(messages'[j].id) \in files'
    ]_vars

\* An image row with its media_url answered by a reply at a later time and
\* then marked ignored.
C34_Witness ==
  /\ Len(messages) = 2
  /\ messages[1].media_url = Some(Filename(1))
  /\ messages[1].reply_status = "ignored"
  /\ messages[2].direction = "outgoing"
  /\ messages[2].created_at > messages[1].created_at

\* ---- the stored socket and the connected flag

\* C35: while the state is connected, the stored socket is set and is the
\* open session whose open update set the flag, so that a reply accepted
\* while connected goes out through the connected session.
C35_ConnectedThroughStoredSocket ==
  connected => \E s \in sock : sessSt[s] = "open"

\* ---- signals of a superseded session

\* Session s, no longer the stored socket, has its open or close update
\* handled in this step, or the rendering of one of its pairing codes
\* settles.
SupersededSignal(s) ==
  /\ sock # Null /\ s \notin sock
  /\ \/ sessSt[s] # "none" /\ sessSt'[s] # sessSt[s]
     \/ \E r \in renders \ renders' : r.s = s

\* C36: an open, close or pairing update of a session that is not the
\* stored socket any more leaves the connected flag, the phone and the
\* pairing code as they were and sets no reconnection timer.
C36_SupersededSignalsIgnored ==
  [][ \A s \in Sessions : SupersededSignal(s) =>
        UNCHANGED <<connected, phone, qrCode, timers>> ]_vars

\* ---- a logout that completes late

\* C37: when sock.logout() of a POST /logout settles and the stored socket
\* is by then another session than the one the call was made on, the
\* handler leaves the stored socket and the session folder alone.
C37_LogoutResetsOnlyItsSession ==
  [][ \A k \in LogoutKeys :
        (logouts'[k] < logouts[k] /\ sock # Null /\ k[1] \notin sock) =>
          UNCHANGED <<sock, material>> ]_vars

\* ---- the order of the rows

\* C38: the incoming rows are in the order in which their events were
\* delivered: of two stored events the one delivered first has the smaller
\* id.
C38_RowsInDeliveryOrder ==
  \A i, j \in IncomingRows :
    rowEvent[i] < rowEvent[j] => messages[i].id < messages[j].id

\* ---- media type and media reference

\* C39: an incoming row, once the handler is done with its event, is an
\* image exactly when its media_url is <id>.jpg; none is left an image
\* without media_url.
C39_ImageIffReference ==
  \A i \in IncomingRows :
    (messages[i].media_type = "image")
      <=> (messages[i].media_url = Some(Filename(messages[i].id)))

\* ---- reconnection, eventually

\* Disconnected without a live session or without a stored socket, and with
\* no reconnection scheduled or under way.
Stuck ==
  /\ ~connected
  /\ (Live = {} \/ sock = Null)
  /\ PendingTimers = 0 /\ PendingConnects = 0

SessionCount == Cardinality(Created)

\* C40: every close update and every successful POST /logout leaves a
\* reconnection timer; a scheduled or started reconnection leads to a new
\* session, which becomes the stored socket; and the process is never
\* disconnected with no live session and nothing pending.
C40_ReconnectEventually ==
  /\ [][ (\/ \E s \in Sessions : Closes(s)
          \/ LogoutSettled /\ resp'.code = 200) => PendingTimers' > PendingTimers
       ]_vars
  /\ [][ \A s \in Sessions : Establishes(s) => sock' = Some(s) ]_vars
  /\ \A n \in 0..(MaxSessions - 1) :
       (SessionCount = n /\ PendingTimers + PendingConnects > 0) ~> (SessionCount > n)
  /\ [] ~Stuck

\* After a successful logout of session 1 the reconnection has run: session
\* 2 is the stored socket, waiting to be paired, and nothing is pending.
C40_Witness ==
  /\ terminated[1] = 1 /\ sessSt[1] = "closed" /\ material = Null
  /\ sock = Some(2) /\ sessSt[2] = "live" /\ sessCreds[2] = Null
  /\ PendingTimers = 0 /\ PendingConnects = 0 /\ PendingLogouts = 0

====
